---- MODULE Spec2Model ----
(***************************************************************************)
(* Model of the FogBugz search-query builder (src/src/filter.rs) and of the *)
(* client that sends its queries (src/src/api_client.rs, list_cases.rs,    *)
(* hours_report.rs, case_details.rs).                                      *)
(*                                                                         *)
(* A Rust String is modelled as a sequence of one-character strings, so    *)
(* that trimming, prefix stripping, substring search, escaping and joining *)
(* are computed character by character as the standard library does.       *)
(* A FogBugzSearchBuilder / OrBuilder is its only field, the Vec of        *)
(* SearchComponent, modelled as a sequence of records tagged by `kind`.    *)
(***************************************************************************)
EXTENDS Naturals, Sequences, FiniteSets

\* components: the builder's Vec<SearchComponent>.
\* log: the method calls made on the builder so far, in call order, each
\*      [op |-> method, a |-> first argument, b |-> second argument].
VARIABLES components, log

\* pair: the components of two builders built side by side.
\* pair_log: the calls made on each of the two, in call order.
VARIABLES pair, pair_log

\* last: the request that returned last, of those sent through a
\*       FogBugzClient: what was asked, what the remote answered, the
\*       commands and effects it caused, its result.
\* calls: the requests that have returned.
\* permits: the permits acquired from rate limiters so far.
\* posts: the HTTP requests sent so far.
VARIABLES last, calls, permits, posts

\* tasks: for each task that sends requests, the request it has in flight:
\*        what it is, where it stands, what it did and was answered so far.
VARIABLES tasks

\* The variables of the one-builder specifications, and the others.
builder_vars == <<components, log>>

client_vars == <<last, calls, permits, posts, tasks>>

other_vars == <<pair, pair_log, last, calls, permits, posts, tasks>>

vars == <<components, log, pair, pair_log, last, calls, permits, posts, tasks>>

(***************************************************************************)
(* Bounds of the model.                                                    *)
(***************************************************************************)
\* Calls made on one builder in a run of Spec.
MaxCalls == 2
\* Length of the strings enumerated exhaustively in SpecArgs.
MaxLen == 3
\* Operations (appends and renderings) on one builder in a run of SpecRender.
MaxSteps == 5
\* Requests sent through clients in a run of SpecCommand, SpecListCases and
\* SpecHours.
MaxRequests == 2

\* The tasks that send requests, and a task with no request in flight.
Tasks == {"A", "B"}

Idle == [pc |-> "idle"]

(***************************************************************************)
(* Characters and the str methods the builder uses.                        *)
(***************************************************************************)
SP == " "
TAB == "\t"
DASH == "-"
QUOTE == "\""
BACKSLASH == "\\"
COLON == ":"
DOT == "."
STAR == "*"

\* char::is_whitespace, restricted to the whitespace characters of the model.
is_whitespace(c) == c \in {SP, TAB}

is_empty(s) == Len(s) = 0

\* str::trim_start: drop the longest whitespace prefix.
trim_start(s) ==
    IF \A i \in 1..Len(s) : is_whitespace(s[i]) THEN <<>>
    ELSE LET k == CHOOSE i \in 1..Len(s) :
                      /\ ~is_whitespace(s[i])
                      /\ \A j \in 1..(i - 1) : is_whitespace(s[j])
         IN  SubSeq(s, k, Len(s))

\* str::trim_end: drop the longest whitespace suffix.
trim_end(s) ==
    IF \A i \in 1..Len(s) : is_whitespace(s[i]) THEN <<>>
    ELSE LET k == CHOOSE i \in 1..Len(s) :
                      /\ ~is_whitespace(s[i])
                      /\ \A j \in (i + 1)..Len(s) : is_whitespace(s[j])
         IN  SubSeq(s, 1, k)

\* str::trim
trim(s) == trim_end(trim_start(s))

\* str::trim_start_matches(c): drop every leading occurrence of the character c.
trim_start_matches(s, c) ==
    IF \A i \in 1..Len(s) : s[i] = c THEN <<>>
    ELSE LET k == CHOOSE i \in 1..Len(s) :
                      /\ s[i] # c
                      /\ \A j \in 1..(i - 1) : s[j] = c
         IN  SubSeq(s, k, Len(s))

\* str::contains with a char pattern.
contains(s, c) == \E i \in 1..Len(s) : s[i] = c

\* str::contains with a string pattern.
contains_str(s, p) ==
    \E i \in 0..(Len(s) - Len(p)) : SubSeq(s, i + 1, i + Len(p)) = p

\* str::starts_with / str::ends_with with a char pattern.
starts_with(s, c) == Len(s) > 0 /\ s[1] = c

ends_with(s, c) == Len(s) > 0 /\ s[Len(s)] = c

\* str::replace with a one-character pattern: every occurrence of the
\* character `from` becomes the string `to`.
replace(s, from, to) ==
    LET R[i \in 0..Len(s)] ==
            IF i = 0 THEN <<>>
            ELSE R[i - 1] \o (IF s[i] = from THEN to ELSE <<s[i]>>)
    IN  R[Len(s)]

\* [String]::join(sep)
join(parts, sep) ==
    LET J[i \in 0..Len(parts)] ==
            IF i = 0 THEN <<>>
            ELSE IF i = 1 THEN parts[1]
            ELSE J[i - 1] \o sep \o parts[i]
    IN  J[Len(parts)]

\* Iterator::filter(|s| !s.is_empty()).collect()
filter_non_empty(parts) == SelectSeq(parts, LAMBDA p : ~is_empty(p))

\* Mutant: the text is copied with its double quotes as they are.
escape_quotes_none(s) == s

\* The escape both rendering branches apply: replace("\"", "\\\"").
escape_quotes(s) == replace(s, QUOTE, <<BACKSLASH, QUOTE>>)

(***************************************************************************)
(* enum SearchComponent                                                    *)
(***************************************************************************)
Term(t) == [kind |-> "Term", text |-> t]
Phrase(t) == [kind |-> "Phrase", text |-> t]
NegatedTerm(t) == [kind |-> "NegatedTerm", text |-> t]
Axis(a, q) == [kind |-> "Axis", axis |-> a, query |-> q]
NegatedAxis(a, q) == [kind |-> "NegatedAxis", axis |-> a, query |-> q]
ExactAxis(a, q) == [kind |-> "ExactAxis", axis |-> a, query |-> q]
Or(cs) == [kind |-> "Or", components |-> cs]

\* Mutant: a leading '-' no longer asks for quotes.
needs_quoting_no_dash(query) ==
    \/ contains(query, SP)
    \/ contains(query, COLON)
    \/ contains(query, QUOTE)
    \/ contains_str(query, <<DOT, DOT>>)

\* Mutant: a wildcard inside the value asks for quotes too, as the comment
\* above the condition says.
needs_quoting_wildcard(query) ==
    \/ contains(query, SP)
    \/ contains(query, COLON)
    \/ contains(query, QUOTE)
    \/ contains_str(query, <<DOT, DOT>>)
    \/ starts_with(query, DASH)
    \/ (contains(query, STAR) /\ query # <<STAR>>)

\* The condition under which the Axis / NegatedAxis branch quotes its value.
needs_quoting(query) ==
    \/ contains(query, SP)
    \/ contains(query, COLON)
    \/ contains(query, QUOTE)
    \/ contains_str(query, <<DOT, DOT>>)
    \/ starts_with(query, DASH)

\* let formatted_query = if needs_quoting && !(starts_with('"') && ends_with('"'))
formatted_query(query) ==
    IF needs_quoting(query) /\ ~(starts_with(query, QUOTE) /\ ends_with(query, QUOTE))
    THEN <<QUOTE>> \o escape_quotes(query) \o <<QUOTE>>
    ELSE escape_quotes(query)

\* unreachable!(): the panic of the arm no variant is meant to reach; it
\* stands where the string of the clause would be.
unreachable == <<"panic: internal error: entered unreachable code">>

\* Mutant: the inner match has no arm for NegatedAxis.
axis_clause_no_negated(c) ==
    CASE c.kind = "Axis" -> c.axis \o <<COLON>> \o formatted_query(c.query)
      [] OTHER -> unreachable

\* The inner `match self` of the Axis | NegatedAxis branch.
axis_clause(c) ==
    CASE c.kind = "Axis" -> c.axis \o <<COLON>> \o formatted_query(c.query)
      [] c.kind = "NegatedAxis" ->
            <<DASH>> \o c.axis \o <<COLON>> \o formatted_query(c.query)
      [] OTHER -> unreachable

\* SearchComponent::stringify
RECURSIVE stringify(_)
stringify(c) ==
    CASE c.kind = "Term" -> c.text
      [] c.kind = "Phrase" -> <<QUOTE>> \o escape_quotes(c.text) \o <<QUOTE>>
      [] c.kind = "NegatedTerm" -> <<DASH>> \o c.text
      [] c.kind \in {"Axis", "NegatedAxis"} -> axis_clause(c)
      [] c.kind = "ExactAxis" ->
            c.axis \o <<COLON, "=">> \o escape_quotes(c.query)
      [] c.kind = "Or" ->
            LET parts == filter_non_empty(
                             [i \in 1..Len(c.components) |-> stringify(c.components[i])])
            IN  IF is_empty(parts) THEN <<>>
                ELSE <<"(">> \o join(parts, <<SP, "O", "R", SP>>) \o <<")">>

(***************************************************************************)
(* impl OrBuilder: the state of an OrBuilder is its `components`.          *)
(***************************************************************************)
OrBuilder_new == <<>>

OrBuilder_term(self, t) ==
    IF ~is_empty(trim(t)) THEN Append(self, Term(t)) ELSE self

OrBuilder_phrase(self, p) ==
    IF ~is_empty(trim(p)) THEN Append(self, Phrase(p)) ELSE self

\* Mutant: the pair is stored as an ExactAxis.
OrBuilder_axis_exact(self, a, q) ==
    IF ~is_empty(trim(a)) /\ ~is_empty(trim(q)) THEN Append(self, ExactAxis(a, q)) ELSE self

OrBuilder_axis(self, a, q) ==
    IF ~is_empty(trim(a)) /\ ~is_empty(trim(q)) THEN Append(self, Axis(a, q)) ELSE self

OrBuilder_assigned_to(self, user_name) ==
    OrBuilder_axis(self, <<"a", "s", "s", "i", "g", "n", "e", "d", "t", "o">>, user_name)

OrBuilder_resolved_by(self, user_name) ==
    OrBuilder_axis(self, <<"r", "e", "s", "o", "l", "v", "e", "d", "b", "y">>, user_name)

OrBuilder_edited_by(self, user_name) ==
    OrBuilder_axis(self, <<"e", "d", "i", "t", "e", "d", "b", "y">>, user_name)

(***************************************************************************)
(* impl FogBugzSearchBuilder: the state of a builder is its `components`.  *)
(***************************************************************************)
new == <<>>

\* Mutant: the emptiness test is made on the untrimmed argument.
term_untrimmed_test(self, t) ==
    IF ~is_empty(t) THEN Append(self, Term(t)) ELSE self

\* Mutant: the term is stored without any emptiness test.
term_unchecked(self, t) == Append(self, Term(t))

term(self, t) ==
    IF ~is_empty(trim(t)) THEN Append(self, Term(t)) ELSE self

phrase(self, p) ==
    IF ~is_empty(trim(p)) THEN Append(self, Phrase(p)) ELSE self

\* Mutant: the stripped term is stored without the second emptiness test.
negated_term_no_recheck(self, t) ==
    IF ~is_empty(trim(t))
    THEN Append(self, NegatedTerm(trim_start_matches(trim(t), DASH)))
    ELSE self

\* Mutant: the term is trimmed but its leading '-' is kept.
negated_term_keep_dash(self, t) ==
    IF ~is_empty(trim(t)) THEN Append(self, NegatedTerm(trim(t))) ELSE self

negated_term(self, t) ==
    IF ~is_empty(trim(t))
    THEN LET clean_term == trim_start_matches(trim(t), DASH)
         IN  IF ~is_empty(clean_term) THEN Append(self, NegatedTerm(clean_term)) ELSE self
    ELSE self

\* Mutant: a clause on the axis of the last stored Axis takes its place.
axis_replacing(self, a, q) ==
    LET axis_trimmed == trim(a)
        query_trimmed == trim(q)
    IN  IF ~is_empty(axis_trimmed) /\ ~is_empty(query_trimmed)
        THEN IF /\ self # <<>>
                /\ self[Len(self)].kind = "Axis"
                /\ self[Len(self)].axis = axis_trimmed
             THEN [self EXCEPT ![Len(self)] = Axis(axis_trimmed, query_trimmed)]
             ELSE Append(self, Axis(axis_trimmed, query_trimmed))
        ELSE self

axis(self, a, q) ==
    LET axis_trimmed == trim(a)
        query_trimmed == trim(q)
    IN  IF ~is_empty(axis_trimmed) /\ ~is_empty(query_trimmed)
        THEN Append(self, Axis(axis_trimmed, query_trimmed))
        ELSE self

\* Mutant: the name is trimmed but its leading '-' is kept.
negated_axis_keep_dash(self, a, q) ==
    LET axis_trimmed == trim(a)
        query_trimmed == trim(q)
    IN  IF ~is_empty(axis_trimmed) /\ ~is_empty(query_trimmed)
        THEN Append(self, NegatedAxis(axis_trimmed, query_trimmed))
        ELSE self

negated_axis(self, a, q) ==
    LET axis_trimmed == trim_start_matches(trim(a), DASH)
        query_trimmed == trim(q)
    IN  IF ~is_empty(axis_trimmed) /\ ~is_empty(query_trimmed)
        THEN Append(self, NegatedAxis(axis_trimmed, query_trimmed))
        ELSE self

\* Mutant: the pair is stored as an ordinary Axis.
exact_axis_as_axis(self, a, q) ==
    LET axis_trimmed == trim(a)
        query_trimmed == trim(q)
    IN  IF ~is_empty(axis_trimmed) /\ ~is_empty(query_trimmed)
        THEN Append(self, Axis(axis_trimmed, query_trimmed))
        ELSE self

exact_axis(self, a, q) ==
    LET axis_trimmed == trim(a)
        query_trimmed == trim(q)
    IN  IF ~is_empty(axis_trimmed) /\ ~is_empty(query_trimmed)
        THEN Append(self, ExactAxis(axis_trimmed, query_trimmed))
        ELSE self

\* Mutant: the '-' is prefixed for the ascending order instead.
order_by_flipped(self, a, descending) ==
    LET axis_trimmed == trim(a)
    IN  IF ~is_empty(axis_trimmed)
        THEN LET order_axis_query ==
                     IF ~descending THEN <<DASH>> \o axis_trimmed ELSE axis_trimmed
             IN  Append(self, Axis(<<"O", "r", "d", "e", "r", "B", "y">>, order_axis_query))
        ELSE self

order_by(self, a, descending) ==
    LET axis_trimmed == trim(a)
    IN  IF ~is_empty(axis_trimmed)
        THEN LET order_axis_query ==
                     IF descending THEN <<DASH>> \o axis_trimmed ELSE axis_trimmed
             IN  Append(self, Axis(<<"O", "r", "d", "e", "r", "B", "y">>, order_axis_query))
        ELSE self

\* Mutant: the clauses are joined last component first.
build_reversed(self) ==
    join(filter_non_empty([i \in 1..Len(self) |-> stringify(self[Len(self) + 1 - i])]), <<SP>>)

\* FogBugzSearchBuilder::build: the string returned.  build takes `self` by
\* value; what that does to the builder is in the action CallBuild.
build(self) ==
    join(filter_non_empty([i \in 1..Len(self) |-> stringify(self[i])]), <<SP>>)

\* Mutant: the clauses are written one after the other with nothing between.
fmt_unseparated(self) ==
    LET parts == filter_non_empty([i \in 1..Len(self) |-> stringify(self[i])])
    IN  join(parts, <<>>)

\* <FogBugzSearchBuilder as fmt::Display>::fmt: the string written to the
\* formatter (what to_string() and format!("{}", ..) return); takes `&self`.
fmt(self) ==
    LET parts == filter_non_empty([i \in 1..Len(self) |-> stringify(self[i])])
    IN  join(parts, <<SP>>)

\* A callback passed to or() is a chain of OrBuilder method calls; it is
\* modelled as the sequence of those calls, [m |-> method, a |-> .., b |-> ..].
OrBuilder_call(self, call) ==
    CASE call.m = "term" -> OrBuilder_term(self, call.a)
      [] call.m = "phrase" -> OrBuilder_phrase(self, call.a)
      [] call.m = "axis" -> OrBuilder_axis(self, call.a, call.b)
      [] call.m = "assigned_to" -> OrBuilder_assigned_to(self, call.a)
      [] call.m = "resolved_by" -> OrBuilder_resolved_by(self, call.a)
      [] call.m = "edited_by" -> OrBuilder_edited_by(self, call.a)

\* Mutant: the calls of the callback are applied last call first.
build_or_group_reversed(script) ==
    LET B[i \in 0..Len(script)] ==
            IF i = 0 THEN OrBuilder_new
            ELSE OrBuilder_call(B[i - 1], script[Len(script) + 1 - i])
    IN  B[Len(script)]

\* let finished_builder = build_or_group(OrBuilder::new())
build_or_group(script) ==
    LET B[i \in 0..Len(script)] ==
            IF i = 0 THEN OrBuilder_new ELSE OrBuilder_call(B[i - 1], script[i])
    IN  B[Len(script)]

\* Mutant: the group is pushed whether or not it holds components.
or_unchecked(self, script) == Append(self, Or(build_or_group(script)))

\* Mutant: the callback is handed the children of the group stored last
\* instead of an empty OrBuilder.
or_reusing(self, script) ==
    LET start == IF self # <<>> /\ self[Len(self)].kind = "Or"
                 THEN self[Len(self)].components
                 ELSE OrBuilder_new
        finished_builder == start \o build_or_group(script)
    IN  IF ~is_empty(finished_builder) THEN Append(self, Or(finished_builder)) ELSE self

\* FogBugzSearchBuilder::or
or(self, script) ==
    LET finished_builder == build_or_group(script)
    IN  IF ~is_empty(finished_builder) THEN Append(self, Or(finished_builder)) ELSE self

\* u32::to_string: the decimal digits of n, most significant first.
digit(d) == <<"0", "1", "2", "3", "4", "5", "6", "7", "8", "9">>[d + 1]

RECURSIVE to_string(_)
to_string(n) == IF n < 10 THEN <<digit(n)>> ELSE to_string(n \div 10) \o <<digit(n % 10)>>

\* --- Common Axis Shortcuts ---
project(self, project_name) == axis(self, <<"p", "r", "o", "j", "e", "c", "t">>, project_name)

assigned_to(self, user_name) == axis(self, <<"a", "s", "s", "i", "g", "n", "e", "d", "t", "o">>, user_name)

opened_by(self, user_name) == axis(self, <<"o", "p", "e", "n", "e", "d", "b", "y">>, user_name)

edited_by(self, user_name) == axis(self, <<"e", "d", "i", "t", "e", "d", "b", "y">>, user_name)

also_edited_by(self, user_name) == axis(self, <<"a", "l", "s", "o", "e", "d", "i", "t", "e", "d", "b", "y">>, user_name)

resolved_by(self, user_name) == axis(self, <<"r", "e", "s", "o", "l", "v", "e", "d", "b", "y">>, user_name)

status(self, status_name) == axis(self, <<"s", "t", "a", "t", "u", "s">>, status_name)

tag(self, tag_name) == axis(self, <<"t", "a", "g">>, tag_name)

type_is(self, doc_type) == axis(self, <<"t", "y", "p", "e">>, doc_type)

edited_date(self, date_query) == axis(self, <<"e", "d", "i", "t", "e", "d">>, date_query)

opened_date(self, date_query) == axis(self, <<"o", "p", "e", "n", "e", "d">>, date_query)

resolved_date(self, date_query) == axis(self, <<"r", "e", "s", "o", "l", "v", "e", "d">>, date_query)

closed_date(self, date_query) == axis(self, <<"c", "l", "o", "s", "e", "d">>, date_query)

due_date(self, date_query) == axis(self, <<"d", "u", "e">>, date_query)

\* Mutant: the id is searched with the ordinary axis syntax.
project_id_as_axis(self, id) == axis(self, <<"p", "r", "o", "j", "e", "c", "t">>, to_string(id))

project_id(self, id) == exact_axis(self, <<"p", "r", "o", "j", "e", "c", "t">>, to_string(id))

case_number(self, n) == axis(self, <<"i", "x", "B", "u", "g">>, to_string(n))

\* Mutant: the wildcard is appended whether or not the pattern ends with one.
tag_wildcard_always(self, tag_pattern) ==
    axis(self, <<"t", "a", "g">>, tag_pattern \o <<STAR>>)

tag_wildcard(self, tag_pattern) ==
    LET query == IF ends_with(tag_pattern, STAR) THEN tag_pattern
                 ELSE tag_pattern \o <<STAR>>
    IN  axis(self, <<"t", "a", "g">>, query)

has_axis(self, a) == axis(self, a, <<STAR>>)

missing_axis(self, a) == negated_axis(self, a, <<STAR>>)

\* A method-call chain applies its calls one after the other; one call of a
\* chain, [op |-> method, a |-> .., b |-> ..], applied to the builder `self`.
call_method(self, c) ==
    CASE c.op = "term" -> term(self, c.a)
      [] c.op = "phrase" -> phrase(self, c.a)
      [] c.op = "negated_term" -> negated_term(self, c.a)
      [] c.op = "axis" -> axis(self, c.a, c.b)
      [] c.op = "negated_axis" -> negated_axis(self, c.a, c.b)
      [] c.op = "exact_axis" -> exact_axis(self, c.a, c.b)
      [] c.op = "or" -> or(self, c.a)
      [] c.op = "order_by" -> order_by(self, c.a, c.b)
      [] c.op = "project_id" -> project_id(self, c.a)
      [] c.op = "case_number" -> case_number(self, c.a)
      [] c.op = "project" -> project(self, c.a)
      [] c.op = "assigned_to" -> assigned_to(self, c.a)
      [] c.op = "opened_by" -> opened_by(self, c.a)
      [] c.op = "edited_by" -> edited_by(self, c.a)
      [] c.op = "also_edited_by" -> also_edited_by(self, c.a)
      [] c.op = "resolved_by" -> resolved_by(self, c.a)
      [] c.op = "status" -> status(self, c.a)
      [] c.op = "tag" -> tag(self, c.a)
      [] c.op = "type_is" -> type_is(self, c.a)
      [] c.op = "edited_date" -> edited_date(self, c.a)
      [] c.op = "opened_date" -> opened_date(self, c.a)
      [] c.op = "resolved_date" -> resolved_date(self, c.a)
      [] c.op = "closed_date" -> closed_date(self, c.a)
      [] c.op = "due_date" -> due_date(self, c.a)
      [] c.op = "tag_wildcard" -> tag_wildcard(self, c.a)
      [] c.op = "has_axis" -> has_axis(self, c.a)
      [] c.op = "missing_axis" -> missing_axis(self, c.a)

(***************************************************************************)
(* Inputs.                                                                 *)
(***************************************************************************)
Alphabet == {"a", SP, TAB, DASH, QUOTE, COLON, DOT, STAR}

\* Every string over Alphabet of length at most MaxLen.
AllTexts == UNION {[1..n -> Alphabet] : n \in 0..MaxLen}

\* Arguments of the calls of Spec: blank and non-blank, padded, dashed.
SeqTexts == {<<>>, <<TAB, SP>>, <<"a">>, <<SP, DASH, "b", SP>>}

SeqNames == {<<>>, <<"n">>, <<SP, DASH, "m">>}

SeqValues == {<<SP>>, <<"v">>, <<"x", SP, "y">>}

ShortcutTexts == {<<>>, <<"x", SP, "y">>}

Ids == {0, 42}

NoArg == <<>>

OrCall(m, a, b) == [m |-> m, a |-> a, b |-> b]

\* Callbacks handed to or() in Spec.
OrScripts ==
    { <<>>,
      <<OrCall("term", <<>>, <<>>), OrCall("axis", <<"n">>, <<SP>>)>>,
      <<OrCall("term", <<"a">>, <<>>)>>,
      <<OrCall("term", <<"a">>, <<>>), OrCall("term", <<"b">>, <<>>)>>,
      <<OrCall("phrase", <<"a", SP, "b">>, <<>>), OrCall("phrase", <<SP>>, <<>>),
        OrCall("axis", <<SP, "n">>, <<"v", SP>>)>>,
      <<OrCall("assigned_to", <<"x", SP, "y">>, <<>>), OrCall("assigned_to", <<"z">>, <<>>)>>,
      <<OrCall("resolved_by", <<"z">>, <<>>), OrCall("edited_by", <<>>, <<>>)>>,
      <<OrCall("edited_by", <<"z">>, <<>>), OrCall("resolved_by", <<TAB>>, <<>>),
        OrCall("term", <<"b">>, <<>>)>>,
      <<OrCall("term", <<"a">>, <<>>), OrCall("phrase", <<"b", SP, "c">>, <<>>),
        OrCall("axis", <<"n">>, <<"v">>)>> }

\* Arguments paired with the exhaustive strings in the two-argument calls of SpecArgs.
ArgNames == {<<>>, <<SP>>, <<"n">>, <<SP, "n", TAB>>, <<DASH>>, <<DASH, DASH, "n">>}

ArgValues == {<<>>, <<TAB>>, <<"v">>, <<SP, DASH, "v">>}

\* Arguments of the examples in the documentation and tests of filter.rs.
DocTexts ==
    { <<"p", "e", "a", "c", "h">>,
      <<"-", "p", "e", "a", "c", "h">>,
      <<"M", "i", "l", "e", "s", "t", "o", "n", "e">> }

DocPairs ==
    { <<<<"p", "r", "o", "j", "e", "c", "t">>, <<"W", "i", "d", "g", "e", "t", " ", "F", "a", "c", "t", "o", "r", "y">>>>,
      <<<<"p", "r", "o", "j", "e", "c", "t">>,
        <<"\"", "W", "i", "d", "g", "e", "t", " ", "F", "a", "c", "t", "o", "r", "y", "\"">>>>,
      <<<<"t", "i", "t", "l", "e">>, <<"p", "e", "a", "r">>>> }

\* The phrase of test_quote_escaping: apple "red" peach
QuoteEscapingPhrase ==
    <<"a", "p", "p", "l", "e", " ", "\"", "r", "e", "d", "\"", " ", "p", "e", "a", "c", "h">>

\* Arguments of phrase in SpecArgs: every short string, the phrase of the
\* test, a text that ends with a backslash, and the padded " a b ".
PhraseTexts ==
    AllTexts \cup {QuoteEscapingPhrase, <<"a", BACKSLASH>>, <<SP, "a", SP, "b", SP>>}

\* Arguments of term in SpecArgs: every short string and the padded "  apple ".
TermTexts == AllTexts \cup {<<SP, SP, "a", "p", "p", "l", "e", SP>>}

\* Arguments of tag_wildcard in SpecArgs: every short string and the "mo"
\* of test_wildcard_searches.
WildcardTexts == AllTexts \cup {<<"m", "o">>}

ArgTexts == AllTexts \cup DocTexts

ArgPairs == (ArgNames \X AllTexts) \cup (AllTexts \X ArgValues) \cup DocPairs

\* Callbacks handed to or() in SpecArgs: none of the calls, or one call with
\* an enumerated argument followed by a blank one.
ArgOrScripts ==
    {<<>>} \cup
    { <<OrCall(m, t, NoArg), OrCall("term", <<SP>>, NoArg)>> :
          m \in {"term", "phrase", "assigned_to", "resolved_by", "edited_by"}, t \in AllTexts }

\* Builders a call of SpecArgs is made on: a new one, and one that already
\* holds a term and an OR-group.
Seeds ==
    { new,
      order_by(or(term(new, <<"a">>),
                  <<OrCall("term", <<"b">>, <<>>), OrCall("axis", <<"n">>, <<"v">>)>>),
               <<"p">>, TRUE) }

(***************************************************************************)
(* The calls as actions.                                                   *)
(***************************************************************************)
\* A method call: the builder is replaced by the one the method returns.
Call(op, a, b, after) ==
    /\ components' = after
    /\ log' = Append(log, [op |-> op, a |-> a, b |-> b])
    /\ UNCHANGED other_vars

\* Nothing else exists yet: two new builders, no call made on either, and no
\* request sent through any client.
OthersInit ==
    /\ pair = <<new, new>>
    /\ pair_log = <<<<>>, <<>>>>
    /\ last = [op |-> "none"]
    /\ calls = 0
    /\ permits = 0
    /\ posts = 0
    /\ tasks = [t \in Tasks |-> Idle]

Init ==
    /\ components = new
    /\ log = <<>>
    /\ OthersInit

CallTerm ==
    /\ Len(log) < MaxCalls
    /\ \E t \in SeqTexts : Call("term", t, NoArg, term(components, t))

CallPhrase ==
    /\ Len(log) < MaxCalls
    /\ \E t \in SeqTexts : Call("phrase", t, NoArg, phrase(components, t))

CallNegatedTerm ==
    /\ Len(log) < MaxCalls
    /\ \E t \in SeqTexts : Call("negated_term", t, NoArg, negated_term(components, t))

CallAxis ==
    /\ Len(log) < MaxCalls
    /\ \E a \in SeqNames, q \in SeqValues : Call("axis", a, q, axis(components, a, q))

CallNegatedAxis ==
    /\ Len(log) < MaxCalls
    /\ \E a \in SeqNames, q \in SeqValues :
           Call("negated_axis", a, q, negated_axis(components, a, q))

CallExactAxis ==
    /\ Len(log) < MaxCalls
    /\ \E a \in SeqNames, q \in SeqValues :
           Call("exact_axis", a, q, exact_axis(components, a, q))

CallOr ==
    /\ Len(log) < MaxCalls
    /\ \E script \in OrScripts : Call("or", script, NoArg, or(components, script))

CallOrderBy ==
    /\ Len(log) < MaxCalls
    /\ \E a \in SeqTexts, descending \in BOOLEAN :
           Call("order_by", a, descending, order_by(components, a, descending))

CallProject ==
    /\ Len(log) < MaxCalls
    /\ \E v \in ShortcutTexts : Call("project", v, NoArg, project(components, v))

CallAssignedTo ==
    /\ Len(log) < MaxCalls
    /\ \E v \in ShortcutTexts : Call("assigned_to", v, NoArg, assigned_to(components, v))

CallOpenedBy ==
    /\ Len(log) < MaxCalls
    /\ \E v \in ShortcutTexts : Call("opened_by", v, NoArg, opened_by(components, v))

CallEditedBy ==
    /\ Len(log) < MaxCalls
    /\ \E v \in ShortcutTexts : Call("edited_by", v, NoArg, edited_by(components, v))

CallAlsoEditedBy ==
    /\ Len(log) < MaxCalls
    /\ \E v \in ShortcutTexts : Call("also_edited_by", v, NoArg, also_edited_by(components, v))

CallResolvedBy ==
    /\ Len(log) < MaxCalls
    /\ \E v \in ShortcutTexts : Call("resolved_by", v, NoArg, resolved_by(components, v))

CallStatus ==
    /\ Len(log) < MaxCalls
    /\ \E v \in ShortcutTexts : Call("status", v, NoArg, status(components, v))

CallTag ==
    /\ Len(log) < MaxCalls
    /\ \E v \in ShortcutTexts : Call("tag", v, NoArg, tag(components, v))

CallTypeIs ==
    /\ Len(log) < MaxCalls
    /\ \E v \in ShortcutTexts : Call("type_is", v, NoArg, type_is(components, v))

CallEditedDate ==
    /\ Len(log) < MaxCalls
    /\ \E v \in ShortcutTexts : Call("edited_date", v, NoArg, edited_date(components, v))

CallOpenedDate ==
    /\ Len(log) < MaxCalls
    /\ \E v \in ShortcutTexts : Call("opened_date", v, NoArg, opened_date(components, v))

CallResolvedDate ==
    /\ Len(log) < MaxCalls
    /\ \E v \in ShortcutTexts : Call("resolved_date", v, NoArg, resolved_date(components, v))

CallClosedDate ==
    /\ Len(log) < MaxCalls
    /\ \E v \in ShortcutTexts : Call("closed_date", v, NoArg, closed_date(components, v))

CallDueDate ==
    /\ Len(log) < MaxCalls
    /\ \E v \in ShortcutTexts : Call("due_date", v, NoArg, due_date(components, v))

CallProjectId ==
    /\ Len(log) < MaxCalls
    /\ \E id \in Ids : Call("project_id", id, NoArg, project_id(components, id))

CallCaseNumber ==
    /\ Len(log) < MaxCalls
    /\ \E n \in Ids : Call("case_number", n, NoArg, case_number(components, n))

CallTagWildcard ==
    /\ Len(log) < MaxCalls
    /\ \E v \in {<<>>, <<"m", "o">>, <<"m", STAR>>} :
           Call("tag_wildcard", v, NoArg, tag_wildcard(components, v))

CallHasAxis ==
    /\ Len(log) < MaxCalls
    /\ \E a \in SeqNames : Call("has_axis", a, NoArg, has_axis(components, a))

CallMissingAxis ==
    /\ Len(log) < MaxCalls
    /\ \E a \in SeqNames : Call("missing_axis", a, NoArg, missing_axis(components, a))

Next ==
    \/ CallTerm
    \/ CallPhrase
    \/ CallNegatedTerm
    \/ CallAxis
    \/ CallNegatedAxis
    \/ CallExactAxis
    \/ CallOr
    \/ CallOrderBy
    \/ CallProject
    \/ CallAssignedTo
    \/ CallOpenedBy
    \/ CallEditedBy
    \/ CallAlsoEditedBy
    \/ CallResolvedBy
    \/ CallStatus
    \/ CallTag
    \/ CallTypeIs
    \/ CallEditedDate
    \/ CallOpenedDate
    \/ CallResolvedDate
    \/ CallClosedDate
    \/ CallDueDate
    \/ CallProjectId
    \/ CallCaseNumber
    \/ CallTagWildcard
    \/ CallHasAxis
    \/ CallMissingAxis

\* Any sequence of at most MaxCalls calls on a new builder.
Spec == Init /\ [][Next]_vars

(***************************************************************************)
(* SpecArgs: one call, its string arguments enumerated exhaustively.       *)
(***************************************************************************)
InitArgs ==
    /\ components \in Seeds
    /\ log = <<>>
    /\ OthersInit

ArgsTerm ==
    /\ log = <<>>
    /\ \E t \in TermTexts : Call("term", t, NoArg, term(components, t))

ArgsPhrase ==
    /\ log = <<>>
    /\ \E t \in PhraseTexts : Call("phrase", t, NoArg, phrase(components, t))

ArgsNegatedTerm ==
    /\ log = <<>>
    /\ \E t \in ArgTexts : Call("negated_term", t, NoArg, negated_term(components, t))

ArgsAxis ==
    /\ log = <<>>
    /\ \E p \in ArgPairs : Call("axis", p[1], p[2], axis(components, p[1], p[2]))

ArgsNegatedAxis ==
    /\ log = <<>>
    /\ \E p \in ArgPairs :
           Call("negated_axis", p[1], p[2], negated_axis(components, p[1], p[2]))

ArgsExactAxis ==
    /\ log = <<>>
    /\ \E p \in ArgPairs :
           Call("exact_axis", p[1], p[2], exact_axis(components, p[1], p[2]))

ArgsOrderBy ==
    /\ log = <<>>
    /\ \E a \in ArgTexts, descending \in BOOLEAN :
           Call("order_by", a, descending, order_by(components, a, descending))

ArgsOr ==
    /\ log = <<>>
    /\ \E script \in ArgOrScripts : Call("or", script, NoArg, or(components, script))

ArgsOrAxis ==
    /\ log = <<>>
    /\ \E p \in ArgPairs :
           LET script == <<OrCall("axis", p[1], p[2])>>
           IN  Call("or", script, NoArg, or(components, script))

ArgsProject ==
    /\ log = <<>>
    /\ \E v \in AllTexts : Call("project", v, NoArg, project(components, v))

ArgsAssignedTo ==
    /\ log = <<>>
    /\ \E v \in AllTexts : Call("assigned_to", v, NoArg, assigned_to(components, v))

ArgsOpenedBy ==
    /\ log = <<>>
    /\ \E v \in AllTexts : Call("opened_by", v, NoArg, opened_by(components, v))

ArgsEditedBy ==
    /\ log = <<>>
    /\ \E v \in AllTexts : Call("edited_by", v, NoArg, edited_by(components, v))

ArgsAlsoEditedBy ==
    /\ log = <<>>
    /\ \E v \in AllTexts : Call("also_edited_by", v, NoArg, also_edited_by(components, v))

ArgsResolvedBy ==
    /\ log = <<>>
    /\ \E v \in AllTexts : Call("resolved_by", v, NoArg, resolved_by(components, v))

ArgsStatus ==
    /\ log = <<>>
    /\ \E v \in AllTexts : Call("status", v, NoArg, status(components, v))

ArgsTag ==
    /\ log = <<>>
    /\ \E v \in AllTexts : Call("tag", v, NoArg, tag(components, v))

ArgsTypeIs ==
    /\ log = <<>>
    /\ \E v \in AllTexts : Call("type_is", v, NoArg, type_is(components, v))

ArgsEditedDate ==
    /\ log = <<>>
    /\ \E v \in AllTexts : Call("edited_date", v, NoArg, edited_date(components, v))

ArgsOpenedDate ==
    /\ log = <<>>
    /\ \E v \in AllTexts : Call("opened_date", v, NoArg, opened_date(components, v))

ArgsResolvedDate ==
    /\ log = <<>>
    /\ \E v \in AllTexts : Call("resolved_date", v, NoArg, resolved_date(components, v))

ArgsClosedDate ==
    /\ log = <<>>
    /\ \E v \in AllTexts : Call("closed_date", v, NoArg, closed_date(components, v))

ArgsDueDate ==
    /\ log = <<>>
    /\ \E v \in AllTexts : Call("due_date", v, NoArg, due_date(components, v))

ArgsTagWildcard ==
    /\ log = <<>>
    /\ \E v \in WildcardTexts : Call("tag_wildcard", v, NoArg, tag_wildcard(components, v))

ArgsHasAxis ==
    /\ log = <<>>
    /\ \E v \in AllTexts : Call("has_axis", v, NoArg, has_axis(components, v))

ArgsMissingAxis ==
    /\ log = <<>>
    /\ \E v \in AllTexts : Call("missing_axis", v, NoArg, missing_axis(components, v))

ArgsProjectId ==
    /\ log = <<>>
    /\ \E id \in Ids : Call("project_id", id, NoArg, project_id(components, id))

ArgsCaseNumber ==
    /\ log = <<>>
    /\ \E n \in Ids : Call("case_number", n, NoArg, case_number(components, n))

NextArgs ==
    \/ ArgsTerm
    \/ ArgsPhrase
    \/ ArgsNegatedTerm
    \/ ArgsAxis
    \/ ArgsNegatedAxis
    \/ ArgsExactAxis
    \/ ArgsOrderBy
    \/ ArgsOr
    \/ ArgsOrAxis
    \/ ArgsProject
    \/ ArgsAssignedTo
    \/ ArgsOpenedBy
    \/ ArgsEditedBy
    \/ ArgsAlsoEditedBy
    \/ ArgsResolvedBy
    \/ ArgsStatus
    \/ ArgsTag
    \/ ArgsTypeIs
    \/ ArgsEditedDate
    \/ ArgsOpenedDate
    \/ ArgsResolvedDate
    \/ ArgsClosedDate
    \/ ArgsDueDate
    \/ ArgsTagWildcard
    \/ ArgsHasAxis
    \/ ArgsMissingAxis
    \/ ArgsProjectId
    \/ ArgsCaseNumber

SpecArgs == InitArgs /\ [][NextArgs]_vars

(***************************************************************************)
(* SpecVector: the calls of tests::test_complex_query, each made at most   *)
(* once, in any order.                                                     *)
(***************************************************************************)
MethodCall(op, a, b) == [op |-> op, a |-> a, b |-> b]

\* The chain of test_complex_query, in its order.
ComplexQueryCalls ==
    << MethodCall("project", <<"S", "a", "m", "p", "l", "e", " ", "P", "r", "o", "j", "e", "c", "t">>, NoArg),
       MethodCall("status", <<"A", "c", "t", "i", "v", "e">>, NoArg),
       MethodCall("or", << OrCall("assigned_to", <<"A", "l", "i", "c", "e">>, NoArg),
                           OrCall("assigned_to", <<"B", "o", "b">>, NoArg) >>, NoArg),
       MethodCall("edited_date", <<"-", "1", "w", ".", ".", "t", "o", "d", "a", "y">>, NoArg),
       MethodCall("negated_axis", <<"t", "a", "g">>, <<"o", "b", "s", "o", "l", "e", "t", "e">>),
       MethodCall("order_by", <<"P", "r", "i", "o", "r", "i", "t", "y">>, FALSE),
       MethodCall("order_by", <<"D", "u", "e">>, TRUE) >>

\* The string test_complex_query asserts.
ComplexQueryExpected ==
    <<
        "p", "r", "o", "j", "e", "c", "t", ":", "\"", "S", "a", "m", "p", "l", "e", " ",
        "P", "r", "o", "j", "e", "c", "t", "\"", " ", "s", "t", "a", "t", "u", "s", ":",
        "A", "c", "t", "i", "v", "e", " ", "(", "a", "s", "s", "i", "g", "n", "e", "d",
        "t", "o", ":", "A", "l", "i", "c", "e", " ", "O", "R", " ", "a", "s", "s", "i",
        "g", "n", "e", "d", "t", "o", ":", "B", "o", "b", ")", " ", "e", "d", "i", "t",
        "e", "d", ":", "\"", "-", "1", "w", ".", ".", "t", "o", "d", "a", "y", "\"", " ",
        "-", "t", "a", "g", ":", "o", "b", "s", "o", "l", "e", "t", "e", " ", "O", "r",
        "d", "e", "r", "B", "y", ":", "P", "r", "i", "o", "r", "i", "t", "y", " ", "O",
        "r", "d", "e", "r", "B", "y", ":", "\"", "-", "D", "u", "e", "\"" >>

\* Two calls of one method with the same arguments; the method is compared
\* first, so that only arguments of the same shape are compared.
SameCall(c, d) == c.op = d.op /\ c.a = d.a /\ c.b = d.b

VectorCall ==
    \E i \in 1..Len(ComplexQueryCalls) :
        /\ \A j \in 1..Len(log) : ~SameCall(log[j], ComplexQueryCalls[i])
        /\ Call(ComplexQueryCalls[i].op, ComplexQueryCalls[i].a, ComplexQueryCalls[i].b,
                call_method(components, ComplexQueryCalls[i]))

SpecVector == Init /\ [][VectorCall]_vars

(***************************************************************************)
(* SpecRender: appends and renderings on one builder.  A rendering is      *)
(* recorded in `log` with the string it returned.                          *)
(***************************************************************************)
\* The appending calls made in SpecRender.
RenderCalls ==
    { MethodCall("term", <<"a">>, NoArg),
      MethodCall("term", <<SP>>, NoArg),
      MethodCall("phrase", <<"b", SP, "c">>, NoArg),
      MethodCall("or", <<OrCall("term", <<"a">>, <<>>), OrCall("term", <<"b">>, <<>>)>>, NoArg),
      MethodCall("order_by", <<"p">>, TRUE) }

\* build(self) has been called: the builder was moved into the call and
\* dropped there.  The type is not Clone, so no copy of it is left and no
\* method can be called on it any more.
Consumed == log # <<>> /\ log[Len(log)].op = "build"

RenderAppend ==
    /\ ~Consumed
    /\ Len(log) < MaxSteps
    /\ \E c \in RenderCalls : Call(c.op, c.a, c.b, call_method(components, c))

\* to_string() / format!("{}", builder): Display::fmt borrows the builder.
CallFmt ==
    /\ ~Consumed
    /\ Len(log) < MaxSteps
    /\ components' = components
    /\ log' = Append(log, [op |-> "fmt", a |-> fmt(components), b |-> NoArg])
    /\ UNCHANGED other_vars

\* builder.build(): reads the components and consumes the builder.
CallBuild ==
    /\ ~Consumed
    /\ Len(log) < MaxSteps
    /\ components' = components
    /\ log' = Append(log, [op |-> "build", a |-> build(components), b |-> NoArg])
    /\ UNCHANGED other_vars

NextRender ==
    \/ RenderAppend
    \/ CallFmt
    \/ CallBuild

SpecRender == Init /\ [][NextRender]_vars

(***************************************************************************)
(* SpecPair: two builders built side by side, their calls interleaved.     *)
(***************************************************************************)
\* The calls made on either builder in SpecPair.
PairCalls ==
    { MethodCall("term", <<"a">>, NoArg),
      MethodCall("term", <<SP>>, NoArg),
      MethodCall("negated_term", <<DASH, "b", "c">>, NoArg),
      MethodCall("axis", <<"n">>, <<"x", SP, "y">>),
      MethodCall("or", <<OrCall("term", <<"a">>, <<>>), OrCall("phrase", <<"b">>, <<>>)>>, NoArg),
      MethodCall("order_by", <<"p">>, TRUE) }

\* Mutant: the two builders push onto one shared Vec.
call_on_shared(builders, i, c) ==
    [j \in DOMAIN builders |-> call_method(builders[i], c)]

\* A method call on builder i of several: every method takes `mut self`,
\* its own Vec, and returns it; there is no static or shared state.
call_on(builders, i, c) ==
    [builders EXCEPT ![i] = call_method(builders[i], c)]

PairCall ==
    \E i \in 1..2, c \in PairCalls :
        /\ Len(pair_log[i]) < MaxCalls
        /\ pair' = call_on(pair, i, c)
        /\ pair_log' = [pair_log EXCEPT ![i] = Append(pair_log[i], c)]
        /\ UNCHANGED <<builder_vars, client_vars>>

SpecPair == Init /\ [][PairCall]_vars

(***************************************************************************)
(* serde_json::Value, as the client reads the remote's responses.          *)
(*                                                                         *)
(* A JSON value is a record of one shape whatever its type: `is` names the *)
(* type, `n` holds a number (and 1 or 0 for a boolean), `s` a string,      *)
(* `items` the elements of an array or the members of an object, and `k`   *)
(* the key under which the value is a member of an object.  Numbers are    *)
(* unsigned integers.  A body that does not decode as JSON is a value of   *)
(* its own kind.                                                           *)
(***************************************************************************)
Value(is, n, s, items) == [is |-> is, k |-> "", n |-> n, s |-> s, items |-> items]

Null == Value("null", 0, "", <<>>)

Bool(b) == Value("bool", IF b THEN 1 ELSE 0, "", <<>>)

Number(n) == Value("number", n, "", <<>>)

String(s) == Value("string", 0, s, <<>>)

Array(items) == Value("array", 0, "", items)

Member(key, value) == [value EXCEPT !.k = key]

Object(members) == Value("object", 0, "", members)

NotJson == Value("not json", 0, "<html>", <<>>)

\* Value::get(key): Some(member) of an object that has the key, else None.
has(v, key) == v.is = "object" /\ \E i \in 1..Len(v.items) : v.items[i].k = key

\* value[key]: the member, or Null when v is no object or has no such key.
index(v, key) ==
    IF has(v, key)
    THEN [(v.items[CHOOSE i \in 1..Len(v.items) : v.items[i].k = key]) EXCEPT !.k = ""]
    ELSE Null

\* Option<T>.
None == [some |-> FALSE]

Some(v) == [some |-> TRUE, v |-> v]

\* chrono's parse of an RFC 3339 timestamp, for the timestamps of the model:
\* the seconds since 2024-01-01T00:00:00Z, or a parse error for the others
\* (a date without a time among them).
parse_from_rfc3339(s) ==
    CASE s = "2024-01-01T09:00:00Z" -> [ok |-> TRUE, seconds |-> 32400]
      [] s = "2024-01-01T11:00:00Z" -> [ok |-> TRUE, seconds |-> 39600]
      [] s = "2024-01-01T14:00:00Z" -> [ok |-> TRUE, seconds |-> 50400]
      [] s = "2024-01-01T17:00:00Z" -> [ok |-> TRUE, seconds |-> 61200]
      [] OTHER -> [ok |-> FALSE, seconds |-> 0]

(***************************************************************************)
(* serde: the types the client deserialises responses into, and            *)
(* serde_json::from_value for them.  A type is [t, fields]: for a struct   *)
(* its fields in declaration order, each with its Rust name, its JSON key  *)
(* and its type; for Option and Vec one field, the inner type.             *)
(***************************************************************************)
Type(t) == [t |-> t, fields |-> <<>>]

Field(name, key, ty) == [name |-> name, key |-> key, ty |-> ty]

OptionOf(ty) == [t |-> "Option", fields |-> <<Field("", "", ty)>>]

VecOf(ty) == [t |-> "Vec", fields |-> <<Field("", "", ty)>>]

Struct(fields) == [t |-> "Struct", fields |-> fields]

\* struct Case (list_cases.rs).
Case ==
    Struct(<<Field("case_id", "ixBug", Type("u64")),
             Field("project_id", "ixProject", Type("u64")),
             Field("project", "sProject", Type("String")),
             Field("titile", "sTitle", Type("String"))>>)

\* struct Attachment, Event, CaseDetails (case_details.rs).
Attachment ==
    Struct(<<Field("file_name", "sFileName", Type("String")),
             Field("url", "sURL", Type("String"))>>)

Event ==
    Struct(<<Field("event_type", "evt", Type("EventType")),
             Field("description", "evtDescription", Type("String")),
             Field("datetime", "dt", Type("DateTime")),
             Field("person_id", "ixPerson", Type("u64")),
             Field("person", "sPerson", Type("String")),
             Field("assigned_to_id", "ixPersonAssignedTo", OptionOf(Type("u64"))),
             Field("attachments", "attachments", OptionOf(VecOf(Attachment))),
             Field("content", "s", Type("String"))>>)

CaseDetails ==
    Struct(<<Field("case_id", "ixBug", Type("u64")),
             Field("title", "sTitle", Type("String")),
             Field("project", "sProject", Type("String")),
             Field("is_open", "fOpen", Type("bool")),
             Field("area", "sArea", Type("String")),
             Field("status", "ixStatus", Type("Status")),
             Field("priority", "ixPriority", Type("Priority")),
             Field("category", "ixCategory", Type("Category")),
             Field("events", "events", VecOf(Event)),
             Field("custom_fields", "customFields", OptionOf(VecOf(Type("String"))))>>)

\* The enums of enums.rs and case_details.rs, by the number they are read
\* from.
Status_deserialize(n) ==
    IF n \in {1, 17, 20, 23, 26, 33, 36, 37, 40} THEN "Active"
    ELSE IF n \in (2..16) \cup {18, 19, 21, 22, 24, 25, 31, 32, 34, 35, 38, 39}
    THEN "Resolved"
    ELSE IF n = 27 THEN "Approved"
    ELSE IF n = 28 THEN "Rejected"
    ELSE IF n = 29 THEN "WontReview"
    ELSE IF n = 30 THEN "AbandonedNoConsensus"
    ELSE "Err"

Priority_deserialize(n) ==
    IF n \in 1..7
    THEN <<"Blocker", "MuyImportante", "ShouldDo", "FixIfTime", "OhWell",
           "WhoCares", "DontFix">>[n]
    ELSE "Err"

Category_deserialize(n) ==
    IF n \in 1..7
    THEN <<"Bug", "Feature", "Inquiry", "Schedule", "Report", "Emergency",
           "Review">>[n]
    ELSE "Err"

EventType_deserialize(n) ==
    IF n \in 1..17
    THEN <<"Opened", "Edited", "Assigned", "Reactivated", "Reopened", "Closed",
           "Moved", "Unknown", "Replied", "Forwarded", "Received", "Sorted",
           "NotSorted", "Resolved", "Emailed", "ReleaseNoted",
           "DeletedAttachment">>[n]
    ELSE "Unknown"

\* from_value::<T>(v).is_ok().  A struct is read from an object (a field
\* that is missing is an error unless it is an Option; keys that are no
\* field are ignored) or from an array of exactly its fields in order.
RECURSIVE from_value_is_ok(_, _)
from_value_is_ok(v, ty) ==
    CASE ty.t = "u64" -> v.is = "number"
      [] ty.t = "i32" -> v.is = "number" /\ v.n <= 2147483647
      [] ty.t = "u8" -> v.is = "number" /\ v.n <= 255
      [] ty.t = "String" -> v.is = "string"
      [] ty.t = "bool" -> v.is = "bool"
      [] ty.t = "DateTime" -> v.is = "string" /\ parse_from_rfc3339(v.s).ok
      [] ty.t = "Status" ->
            v.is = "number" /\ v.n <= 2147483647 /\ Status_deserialize(v.n) # "Err"
      [] ty.t = "Priority" ->
            v.is = "number" /\ v.n <= 255 /\ Priority_deserialize(v.n) # "Err"
      [] ty.t = "Category" ->
            v.is = "number" /\ v.n <= 255 /\ Category_deserialize(v.n) # "Err"
      [] ty.t = "EventType" -> v.is = "number" /\ v.n <= 2147483647
      [] ty.t = "Option" ->
            v.is = "null" \/ from_value_is_ok(v, ty.fields[1].ty)
      [] ty.t = "Vec" ->
            /\ v.is = "array"
            /\ \A i \in 1..Len(v.items) :
                  from_value_is_ok(v.items[i], ty.fields[1].ty)
      [] ty.t = "Struct" ->
            \/ /\ v.is = "object"
               /\ \A i \in 1..Len(ty.fields) :
                     IF has(v, ty.fields[i].key)
                     THEN from_value_is_ok(index(v, ty.fields[i].key), ty.fields[i].ty)
                     ELSE ty.fields[i].ty.t = "Option"
            \/ /\ v.is = "array"
               /\ Len(v.items) = Len(ty.fields)
               /\ \A i \in 1..Len(ty.fields) :
                     from_value_is_ok(v.items[i], ty.fields[i].ty)

\* from_value::<T>(v).unwrap(), for a v that deserialises.  A struct is the
\* record of its fields, each under the key serde renames it to.
RECURSIVE from_value(_, _)
from_value(v, ty) ==
    CASE ty.t \in {"u64", "i32", "u8"} -> v.n
      [] ty.t = "String" -> v.s
      [] ty.t = "bool" -> v.n = 1
      [] ty.t = "DateTime" -> parse_from_rfc3339(v.s).seconds
      [] ty.t = "Status" -> Status_deserialize(v.n)
      [] ty.t = "Priority" -> Priority_deserialize(v.n)
      [] ty.t = "Category" -> Category_deserialize(v.n)
      [] ty.t = "EventType" -> EventType_deserialize(v.n)
      [] ty.t = "Option" ->
            IF v.is = "null" THEN None ELSE Some(from_value(v, ty.fields[1].ty))
      [] ty.t = "Vec" ->
            [i \in 1..Len(v.items) |-> from_value(v.items[i], ty.fields[1].ty)]
      [] ty.t = "Struct" ->
            [key \in {ty.fields[i].key : i \in 1..Len(ty.fields)} |->
                LET i == CHOOSE j \in 1..Len(ty.fields) : ty.fields[j].key = key
                    f == ty.fields[i]
                IN  IF v.is = "array" THEN from_value(v.items[i], f.ty)
                    ELSE IF has(v, key) THEN from_value(index(v, key), f.ty)
                    ELSE None]
(***************************************************************************)
(* The API client: FogBugzClient::send_command (src/src/api_client.rs) and *)
(* the requests that send through it.                                      *)
(*                                                                         *)
(* A request is an async fn: it runs until it awaits, and other requests   *)
(* run in between.  Two tasks, "A" and "B", send requests; each in-flight  *)
(* request is a record holding its position (`todo`, the awaits and the    *)
(* effects still to come in the command at hand), the status it has read   *)
(* and what it has done so far.  The world sees a permit taken and a       *)
(* request posted when they happen, and a request returned only at its     *)
(* end.                                                                    *)
(***************************************************************************)
\* What `.send().await` gives: no response at all (a transport failure), or
\* a response with a status and a body.
Response(arrived, success, body) ==
    [arrived |-> arrived, success |-> success, body |-> body]

\* Result<Value, ResponseError>: Ok(json), and the four variants of
\* ResponseError, of which only FogbugzError carries a JSON value.
Ok(json) == [ok |-> TRUE, error |-> "none", json |-> json]

Err(variant, json) == [ok |-> FALSE, error |-> variant, json |-> json]

\* Url::parse(&self.url)?.join(..)? succeeds for an absolute http(s) URL
\* with a host.  Of the URLs the model gives its clients,
\* "example.fogbugz.com" has no scheme (RelativeUrlWithoutBase) and
\* "mailto:a@b" parses but cannot be a base, so that the join fails.
url_joins(url) == url \in {"https://example.fogbugz.com"}

\* Mutant: the caller's params win over cmd and token.
payload_params_win(cmd, params, api_key) ==
    [k \in DOMAIN params \cup {"cmd", "token"} |->
        IF k \in DOMAIN params THEN params[k]
        ELSE IF k = "cmd" THEN cmd ELSE api_key]

\* let mut payload = to_value(params)?; payload["cmd"] = cmd.into();
\* payload["token"] = self.api_key.clone().into();
\* params is a JSON object, as every caller in the crate passes one.
payload(cmd, params, api_key) ==
    [k \in DOMAIN params \cup {"cmd", "token"} |->
        IF k = "cmd" THEN cmd
        ELSE IF k = "token" THEN api_key
        ELSE params[k]]

\* Mutant: the request is posted before the permit is acquired.
steps_posting_first(client) ==
    <<"post">> \o (IF client.limiter THEN <<"acquire_one">> ELSE <<>>)
               \o <<"send", "json">>

\* What send_command does after the URL, in program order:
\* `limiter.acquire_one().await` when the leaky-bucket feature is on and
\* self.limiter is Some, then the POST, then the wait for the response at
\* `.send().await?` and the wait for its body at `response.json().await?`.
\* CaseDetailsRequest::send does the same (case_details.rs:174-199).
steps(client) ==
    (IF client.limiter THEN <<"acquire_one">> ELSE <<>>)
        \o <<"post", "send", "json">>

\* Mutant: a successful status is Ok whatever the body's "errors" holds.
response_result_trusting_status(response) ==
    IF ~ response.arrived \/ response.body = NotJson
    THEN Err("RequestError", Null)
    ELSE IF response.success
         THEN Ok(response.body)
         ELSE Err("FogbugzError", response.body)

\* The match on the outcome of the POST: `.send().await?`, then
\* `response.json().await?` in either branch of `if status.is_success()`;
\* reqwest reports a body that is not JSON as a reqwest::Error.
response_result(response) ==
    LET json == response.body
        errors == index(json, "errors")
    IN  IF ~ response.arrived
        THEN Err("RequestError", Null)
        ELSE IF json = NotJson
        THEN Err("RequestError", Null)
        ELSE IF response.success
        THEN IF has(json, "errors") /\ errors.is = "array" /\ errors.items # <<>>
             THEN Err("FogbugzError", json)
             ELSE Ok(json)
        ELSE Err("FogbugzError", json)

\* One thing a request does to the world: a permit taken, or a request
\* posted to a path under the base URL with a JSON payload.
Effect(e, path, sent) == [e |-> e, path |-> path, payload |-> sent]

\* A call of send_command(cmd, params).
Command(cmd, params) == [cmd |-> cmd, params |-> params]

\* The tasks with a request in flight.
InFlight == {t \in Tasks : tasks[t].pc # "idle"}

\* The request `op` of `self` as it starts: its first command (none for
\* CaseDetailsRequest, which does not go through send_command), nothing
\* done yet.
started(op, self, commands) ==
    [pc |-> "running", op |-> op, req |-> self, stage |-> 1,
     todo |-> steps(self.client), status |-> "pending", commands |-> commands,
     effects |-> <<>>, responses |-> <<>>,
     acc |-> [case_ids |-> {}, cases_map |-> <<>>]]

\* A request returns: it becomes the last request returned.
Return(t, request, result) ==
    /\ last' = [op |-> request.op, req |-> request.req,
                responses |-> request.responses,
                commands |-> request.commands, effects |-> request.effects,
                result |-> result]
    /\ calls' = calls + 1
    /\ tasks' = [tasks EXCEPT ![t] = Idle]

\* Task t calls send(): the code up to the first await.  The base URL is
\* parsed first, and the `?` returns the error at once.
Begin(t, op, self, commands) ==
    /\ tasks[t].pc = "idle"
    /\ calls + Cardinality(InFlight) < MaxRequests
    /\ IF url_joins(self.client.url)
       THEN /\ tasks' = [tasks EXCEPT ![t] = started(op, self, commands)]
            /\ UNCHANGED <<last, calls>>
       ELSE Return(t, started(op, self, commands), Err("UrlError", Null))
    /\ UNCHANGED <<permits, posts, builder_vars, pair, pair_log>>

\* A request goes on to its next command: send_command is entered again
\* (the URL, unchanged, joins again).
Continue(t, request, command, acc) ==
    /\ tasks' = [tasks EXCEPT ![t] =
          [request EXCEPT !.stage = @ + 1,
                          !.todo = steps(request.req.client),
                          !.status = "pending",
                          !.commands = Append(@, command),
                          !.acc = acc]]
    /\ UNCHANGED <<last, calls>>

\* limiter.acquire_one().await
Acquire ==
    \E t \in InFlight :
        /\ tasks[t].todo # <<>> /\ Head(tasks[t].todo) = "acquire_one"
        /\ permits' = permits + 1
        /\ tasks' = [tasks EXCEPT ![t] =
              [@ EXCEPT !.todo = Tail(@),
                        !.effects = Append(@, Effect("acquire_one", "", <<>>))]]
        /\ UNCHANGED <<last, calls, posts, builder_vars, pair, pair_log>>
(***************************************************************************)
(* ListCasesRequest::send (src/src/list_cases.rs).                         *)
(***************************************************************************)
Digits == {"0", "1", "2", "3", "4", "5", "6", "7", "8", "9"}

\* u32::MAX, 4294967295, digit by digit.
U32_MAX == <<"4", "2", "9", "4", "9", "6", "7", "2", "9", "5">>

\* a <= b for two digit strings of one length: the digit characters are in
\* the order of their values.
RECURSIVE digits_le(_, _)
digits_le(a, b) ==
    IF a = <<>> THEN TRUE
    ELSE IF Head(a) = Head(b) THEN digits_le(Tail(a), Tail(b))
    ELSE \E i, j \in 0..9 :
            /\ i < j
            /\ Head(a) = <<"0", "1", "2", "3", "4", "5", "6", "7", "8", "9">>[i + 1]
            /\ Head(b) = <<"0", "1", "2", "3", "4", "5", "6", "7", "8", "9">>[j + 1]

\* s without its leading characters c.
RECURSIVE strip_leading(_, _)
strip_leading(s, c) ==
    IF s # <<>> /\ Head(s) = c THEN strip_leading(Tail(s), c) ELSE s

\* s.parse::<u32>().is_ok(): an optional '+', then at least one character,
\* all of them decimal digits, and a value that fits 32 bits.  The value is
\* compared digit by digit once its leading zeros are gone.
parse_u32_is_ok(s) ==
    LET digits == IF s # <<>> /\ Head(s) = "+" THEN Tail(s) ELSE s
        value == strip_leading(digits, "0")
    IN  /\ digits # <<>>
        /\ \A i \in 1..Len(digits) : digits[i] \in Digits
        /\ \/ Len(value) < Len(U32_MAX)
           \/ Len(value) = Len(U32_MAX) /\ digits_le(value, U32_MAX)

\* Mutant: only an absent or blank filter is taken for a saved filter.
is_saved_filter_only_when_blank(search_filter) == is_empty(search_filter)

\* The test that routes the request: an empty filter or a numeric filter id.
is_saved_filter(search_filter) ==
    is_empty(search_filter) \/ parse_u32_is_ok(search_filter)

\* cols with the four columns that Case needs pushed when they are missing.
RECURSIVE with_required(_, _)
with_required(cols, required) ==
    IF required = <<>> THEN cols
    ELSE with_required(
            IF \E i \in 1..Len(cols) : cols[i] = Head(required)
            THEN cols ELSE Append(cols, Head(required)),
            Tail(required))

\* The command ListCasesRequest::send passes to send_command: send_list_cases
\* ("listCases") with the trimmed filter as sFilter, or send_search
\* ("search") with it as q.
list_cases_command(self) ==
    LET search_filter == IF self.filter.some THEN trim(self.filter.v) ELSE <<>>
        cols == with_required(IF self.cols.some THEN self.cols.v ELSE <<>>,
                              <<"ixBug", "ixProject", "sProject", "sTitle">>)
    IN  IF is_saved_filter(search_filter)
        THEN Command("listCases",
                     [sFilter |-> search_filter, cols |-> cols, max |-> self.max])
        ELSE Command("search",
                     [q |-> search_filter, cols |-> cols, max |-> self.max])

\* serde_json::from_value::<Vec<Case>>(response_json["data"]["cases"])?
cases_from_value(response_json) ==
    LET cases == index(index(response_json, "data"), "cases")
    IN  IF from_value_is_ok(cases, VecOf(Case))
        THEN [ok |-> TRUE, error |-> "none", cases |-> from_value(cases, VecOf(Case))]
        ELSE Err("JsonError", Null)

\* What send() returns once its command has its result.
list_cases_result(sent) ==
    IF sent.ok THEN cases_from_value(sent.json) ELSE sent

(***************************************************************************)
(* AggregateHoursRequest::send (src/src/hours_report.rs).                  *)
(*                                                                         *)
(* Hours are whole numbers, the timestamps of the model being whole hours  *)
(* apart.  The HashSet of case ids and the HashMap of cases iterate in     *)
(* orders the program does not choose, each its own: they are inputs.      *)
(***************************************************************************)
\* id.to_string(): the decimal digits of id.
RECURSIVE u64_to_string(_)
u64_to_string(id) ==
    LET units == <<"0", "1", "2", "3", "4", "5", "6", "7", "8", "9">>[(id % 10) + 1]
    IN  IF id < 10 THEN <<units>> ELSE Append(u64_to_string(id \div 10), units)

\* The params of listIntervals: the person and the dates that are set.
\* self.project_id is read nowhere in send().
list_intervals_params(self) ==
    [k \in {k \in {"ixPerson", "dtStart", "dtEnd"} :
              \/ k = "ixPerson" /\ self.person_id.some
              \/ k = "dtStart" /\ self.start_date.some
              \/ k = "dtEnd" /\ self.end_date.some} |->
        IF k = "ixPerson" THEN self.person_id.v
        ELSE IF k = "dtStart" THEN self.start_date.v
        ELSE self.end_date.v]

\* The first pass over the intervals, from interval `i` on: an interval
\* whose ixBug is a number and whose sTitle, dtStart and dtEnd are strings
\* has its case id collected, and when both its dates parse its hours are
\* added to the entry of its case, which is created with the interval's
\* title if it is not there.
RECURSIVE first_pass(_, _, _)
first_pass(intervals, i, acc) ==
    IF i > Len(intervals) THEN acc
    ELSE LET interval == intervals[i]
             whole == /\ index(interval, "ixBug").is = "number"
                      /\ index(interval, "sTitle").is = "string"
                      /\ index(interval, "dtStart").is = "string"
                      /\ index(interval, "dtEnd").is = "string"
             start_time == parse_from_rfc3339(index(interval, "dtStart").s)
             end_time == parse_from_rfc3339(index(interval, "dtEnd").s)
             case_id == index(interval, "ixBug").n
             duration_hours == (end_time.seconds - start_time.seconds) \div 3600
             case_entry ==
                 IF case_id \in DOMAIN acc.cases_map
                 THEN acc.cases_map[case_id]
                 ELSE [ixBug |-> Number(case_id),
                       sTitle |-> String(index(interval, "sTitle").s),
                       hrsElapsed |-> Number(0), hrsCurrEst |-> Number(0),
                       hrsOrigEst |-> Number(0),
                       sProject |-> String("Unknown"), ixProject |-> Null,
                       sPersonAssignedTo |-> String("Unknown"),
                       ixPersonAssignedTo |-> Null]
             added == [case_entry EXCEPT
                          !.hrsElapsed = Number(@.n + duration_hours)]
         IN  first_pass(intervals, i + 1,
                IF ~ whole THEN acc
                ELSE [case_ids |-> acc.case_ids \cup {case_id},
                      cases_map |->
                          IF start_time.ok /\ end_time.ok
                          THEN [id \in DOMAIN acc.cases_map \cup {case_id} |->
                                   IF id = case_id THEN added ELSE acc.cases_map[id]]
                          ELSE acc.cases_map])

\* The search for the details of the cases, their ids joined in the order
\* the HashSet iterates in.
search_params(case_ids, order) ==
    LET ids == SelectSeq(order, LAMBDA id : id \in case_ids)
        case_numbers == [i \in 1..Len(ids) |-> u64_to_string(ids[i])]
    IN  [q |-> join(case_numbers, <<",">>),
         cols |-> "ixBug,sTitle,sProject,ixProject,hrsElapsed,hrsCurrEst,hrsOrigEst,sPersonAssignedTo,ixPersonAssignedTo"]

\* The second pass, from case `i` of the search response on: a case whose
\* ixBug is a number that has an entry overwrites, in that entry, those of
\* the six detail fields that it has with the type they are read at.
RECURSIVE second_pass(_, _, _)
second_pass(cases, i, cases_map) ==
    IF i > Len(cases) THEN cases_map
    ELSE LET case == cases[i]
             case_id == index(case, "ixBug")
             strings == {"sProject", "sPersonAssignedTo"}
             numbers == {"ixProject", "hrsCurrEst", "hrsOrigEst", "ixPersonAssignedTo"}
         IN  second_pass(cases, i + 1,
                IF case_id.is = "number" /\ case_id.n \in DOMAIN cases_map
                THEN [cases_map EXCEPT ![case_id.n] =
                        [f \in DOMAIN @ |->
                            IF \/ f \in strings /\ index(case, f).is = "string"
                               \/ f \in numbers /\ index(case, f).is = "number"
                            THEN index(case, f)
                            ELSE @[f]]]
                ELSE cases_map)

\* The response send() builds: the cases in the order the HashMap iterates
\* in, and their number twice.
hours_response(cases_map, order) ==
    LET ids == SelectSeq(order, LAMBDA id : id \in DOMAIN cases_map)
        cases == [i \in 1..Len(ids) |-> cases_map[ids[i]]]
    IN  [ok |-> TRUE, error |-> "none",
         data |-> [cases |-> cases, count |-> Len(cases), totalHits |-> Len(cases)]]

\* The cases of the search response, if there are any to take: the result is
\* Ok and has an array under data.cases.
found_cases(searched) ==
    IF searched.ok /\ index(index(searched.json, "data"), "cases").is = "array"
    THEN index(index(searched.json, "data"), "cases").items
    ELSE <<>>

(***************************************************************************)
(* CaseDetailsRequest::send (src/src/case_details.rs): its own permit and  *)
(* POST, to api/search, with the request and the token as body.            *)
(***************************************************************************)
\* to_value(self) with body["token"] set: cols when there are some, the case
\* id as q, and the token.
case_details_body(self) ==
    [k \in (IF self.cols.some THEN {"cols"} ELSE {}) \cup {"q", "token"} |->
        IF k = "cols" THEN self.cols.v
        ELSE IF k = "q" THEN self.case_id
        ELSE self.client.api_key]

\* `&mut json["data"]["cases"][0]["events"]` panics when the path cannot be
\* walked: a key is taken of a value that is neither an object nor null, or
\* the index 0 of a value that is not an array with an element.
first_case_panics(json) ==
    LET data == index(json, "data")
        cases == index(data, "cases")
    IN  \/ json.is \notin {"object", "null"}
        \/ data.is \notin {"object", "null"}
        \/ cases.is # "array"
        \/ cases.items = <<>>
        \/ cases.items[1].is \notin {"object", "null"}

\* json["data"]["cases"][0] as it is taken for from_value, after
\* `&mut ..[0]["events"]` and the retain: a case that is null has become an
\* object, a case with no "events" has been given one that is null, and an
\* array of events has lost those that are not objects.  The order of the
\* members of an object carries no meaning.
first_case(json) ==
    LET item == index(index(json, "data"), "cases").items[1]
        case == IF item.is = "null" THEN Object(<<>>) ELSE item
    IN  IF ~ has(case, "events")
        THEN [case EXCEPT !.items = Append(@, Member("events", Null))]
        ELSE IF index(case, "events").is = "array"
        THEN [case EXCEPT !.items =
                [i \in 1..Len(@) |->
                    IF @[i].k = "events"
                    THEN [@[i] EXCEPT !.items =
                            SelectSeq(@, LAMBDA event : event.is = "object")]
                    ELSE @[i]]]
        ELSE case

\* The match on the outcome of the POST in CaseDetailsRequest::send: no look
\* at "errors" on success.  A send() that panics ends there: it is recorded
\* as returned, with the panic for its result.
case_details_result(response) ==
    LET json == response.body
    IN  IF ~ response.arrived \/ json = NotJson
        THEN Err("RequestError", Null)
        ELSE IF ~ response.success
        THEN Err("FogbugzError", json)
        ELSE IF first_case_panics(json)
        THEN [ok |-> FALSE, error |-> "panic", json |-> Null]
        ELSE IF from_value_is_ok(first_case(json), CaseDetails)
        THEN [ok |-> TRUE, error |-> "none",
              case_details |-> from_value(first_case(json), CaseDetails)]
        ELSE Err("JsonError", Null)

\* The POST: of the payload of the command at hand to f/api/0/jsonapi, or
\* of the body of a CaseDetailsRequest to api/search.
Post ==
    \E t \in InFlight :
        LET request == tasks[t]
            command == request.commands[Len(request.commands)]
            sent == IF request.op = "case_details"
                    THEN Effect("post", "api/search", case_details_body(request.req))
                    ELSE Effect("post", "f/api/0/jsonapi",
                                payload(command.cmd, command.params,
                                        request.req.client.api_key))
        IN  /\ request.todo # <<>> /\ Head(request.todo) = "post"
            /\ posts' = posts + 1
            /\ tasks' = [tasks EXCEPT ![t] =
                  [@ EXCEPT !.todo = Tail(@), !.effects = Append(@, sent)]]
            /\ UNCHANGED <<last, calls, permits, builder_vars, pair, pair_log>>

\* The effects of one kind among those of a request.
EffectsOf(effects, e) == SelectSeq(effects, LAMBDA x : x.e = e)

\* AggregateHoursRequest::send from the response to a command on: to its
\* return, or to its second command.
hours_resume(t, request, response, ids_order, map_order) ==
    LET sent == response_result(response)
        intervals == index(index(sent.json, "data"), "intervals")
        first == first_pass(intervals.items, 1, request.acc)
    IN  IF request.stage = 1
        THEN IF ~ sent.ok
             THEN Return(t, request, sent)
             ELSE IF intervals.is # "array"
             THEN Return(t, request, hours_response(<<>>, map_order))
             ELSE IF first.case_ids = {}
             THEN Return(t, request, hours_response(first.cases_map, map_order))
             ELSE Continue(t, request,
                           Command("search", search_params(first.case_ids, ids_order)),
                           first)
        ELSE Return(t, request,
                    hours_response(
                        second_pass(found_cases(sent), 1, request.acc.cases_map),
                        map_order))

\* A request from the response it awaited on.
resume(t, request, response, ids_order, map_order) ==
    CASE request.op = "send_command" ->
            Return(t, request, response_result(response))
      [] request.op = "list_cases" ->
            Return(t, request, list_cases_result(response_result(response)))
      [] request.op = "case_details" ->
            Return(t, request, case_details_result(response))
      [] request.op = "aggregate_hours" ->
            hours_resume(t, request, response, ids_order, map_order)

(***************************************************************************)
(* The clients, the requests and the remote's answers of the model.        *)
(* Task A sends any request of a specification; task B, whose requests run *)
(* beside those of A, sends the few named Beside.                          *)
(***************************************************************************)
Limited ==
    [url |-> "https://example.fogbugz.com", api_key |-> "secret", limiter |-> TRUE]

Unlimited ==
    [url |-> "https://example.fogbugz.com", api_key |-> "secret", limiter |-> FALSE]

NoScheme == [url |-> "example.fogbugz.com", api_key |-> "secret", limiter |-> FALSE]

Urls == {"https://example.fogbugz.com", "example.fogbugz.com", "mailto:a@b"}

Clients == [url : Urls, api_key : {"secret"}, limiter : BOOLEAN]

Commands == {"search", "listFilters"}

\* Params with no key, with one, and with keys named like the two that
\* send_command sets itself.
CommandParams ==
    { [k \in {} |-> ""],
      [q |-> "x"],
      [q |-> "x", cmd |-> "logoff", token |-> "other"] }

CommandRequests == [client : Clients, cmd : Commands, params : CommandParams]

CommandsBeside ==
    { [client |-> Limited, cmd |-> "listFilters", params |-> [k \in {} |-> ""]],
      [client |-> Unlimited, cmd |-> "search", params |-> [q |-> "x"]] }

NotLoggedIn == Member("errors", Array(<<String("Error 3: Not logged in")>>))

NoErrors == Member("errors", Array(<<>>))

\* Bodies that are not JSON, and JSON with no "errors", with one that is no
\* array, with an empty one and with an error in it.
Bodies ==
    { NotJson,
      Object(<<>>),
      Object(<<Member("errors", String("none"))>>),
      Object(<<NoErrors>>),
      Object(<<NotLoggedIn>>) }

NoResponse == Response(FALSE, FALSE, NotJson)

Responses == {NoResponse} \cup {Response(TRUE, s, b) : s \in BOOLEAN, b \in Bodies}

\* What ListCasesRequestBuilder::search_filter(search_builder) sets.
BuiltFilters ==
    { build(new),
      build(status(new, <<"A", "c", "t", "i", "v", "e">>)),
      build(term(new, <<"1", "2", "3">>)),
      build(axis(term(new, <<"b", "u", "g">>), <<"t", "a", "g">>, <<"a", SP, "b">>)) }

TypedFilters ==
    { <<>>, <<SP, SP>>, <<"3", "9", "5">>, <<SP, "3", "9", "5", TAB>>,
      <<"+", "5">>, <<"-", "5">>, <<"+">>, <<"3", SP, "9">>, <<"1", "2", "a">>,
      U32_MAX,
      <<"4", "2", "9", "4", "9", "6", "7", "2", "9", "6">>,
      <<"0", "0", "0", "0", "0", "0", "0", "0", "0", "0", "7">>,
      <<"1", "0", "0", "0", "0", "0", "0", "0", "0", "0", "0">> }

Filters == {None} \cup {Some(f) : f \in BuiltFilters \cup TypedFilters}

\* Every filter through the limited client, and requests with no columns
\* and no maximum through the other clients.
ListCasesRequests ==
    { [client |-> Limited, filter |-> f,
       cols |-> Some(<<"sTitle", "dtOpened">>), max |-> Some(10)] : f \in Filters }
    \cup
    { [client |-> Unlimited, filter |-> Some(<<"3", "9", "5">>),
       cols |-> None, max |-> None],
      [client |-> NoScheme, filter |-> None, cols |-> None, max |-> Some(10)] }

ListCasesBeside ==
    { [client |-> Limited, filter |-> Some(<<SP, "3", "9", "5", TAB>>),
       cols |-> None, max |-> None] }

\* A case as the remote lists it, with the columns that were asked for.
ListedCase ==
    Object(<<Member("ixBug", Number(7)), Member("ixProject", Number(1)),
             Member("sProject", String("Inbox")), Member("sTitle", String("Crash")),
             Member("dtOpened", String("2024-01-01T09:00:00Z"))>>)

\* Cases that are no Case: a column missing, a number sent as a string.
BareCase == Object(<<Member("ixBug", Number(7))>>)

QuotedCase ==
    Object(<<Member("ixBug", String("7")), Member("ixProject", Number(1)),
             Member("sProject", String("Inbox")), Member("sTitle", String("Crash"))>>)

Cases(items) == Member("data", Object(<<Member("cases", Array(items))>>))

ListResponses ==
    { NoResponse,
      Response(TRUE, TRUE, Object(<<NoErrors, Cases(<<ListedCase>>)>>)),
      Response(TRUE, TRUE, Object(<<Cases(<<BareCase>>)>>)),
      Response(TRUE, TRUE, Object(<<Cases(<<ListedCase, QuotedCase>>)>>)),
      Response(TRUE, TRUE, Object(<<>>)),
      Response(TRUE, FALSE, Object(<<NotLoggedIn>>)) }

\* aggregate_hours requests with and without a project, a person and dates.
HoursRequests ==
    { [client |-> Limited, project_id |-> Some(1), person_id |-> Some(3),
       start_date |-> Some("2024-01-01"), end_date |-> Some("2024-01-02")],
      [client |-> Unlimited, project_id |-> None, person_id |-> None,
       start_date |-> Some("2024-01-01"), end_date |-> None],
      [client |-> Limited, project_id |-> Some(1), person_id |-> None,
       start_date |-> None, end_date |-> None],
      [client |-> NoScheme, project_id |-> None, person_id |-> Some(3),
       start_date |-> None, end_date |-> None] }

HoursBeside ==
    { [client |-> Limited, project_id |-> None, person_id |-> Some(3),
       start_date |-> None, end_date |-> None] }

\* Time logged on case 7 of project 1 and case 12 of project 2.
Interval(case_id, title, start, end) ==
    Object(<<Member("ixBug", Number(case_id)), Member("sTitle", String(title)),
             Member("ixPerson", Number(3)),
             Member("dtStart", String(start)), Member("dtEnd", String(end))>>)

Crash9to11 == Interval(7, "Crash", "2024-01-01T09:00:00Z", "2024-01-01T11:00:00Z")

Crash14to17 ==
    Interval(7, "Crash on start", "2024-01-01T14:00:00Z", "2024-01-01T17:00:00Z")

Typo11to14 == Interval(12, "Typo", "2024-01-01T11:00:00Z", "2024-01-01T14:00:00Z")

TypoUndated == Interval(12, "Typo", "2024-01-01", "2024-01-01T14:00:00Z")

Intervals(items) == Member("data", Object(<<Member("intervals", Array(items))>>))

IntervalResponses ==
    { NoResponse,
      Response(TRUE, FALSE, Object(<<NotLoggedIn>>)),
      Response(TRUE, TRUE, Object(<<NoErrors>>)),
      Response(TRUE, TRUE, Object(<<NoErrors, Intervals(<<>>)>>)),
      Response(TRUE, TRUE,
               Object(<<NoErrors, Intervals(<<Crash9to11, Typo11to14, Crash14to17>>)>>)),
      Response(TRUE, TRUE,
               Object(<<NoErrors, Intervals(<<TypoUndated, BareCase, Crash9to11>>)>>)) }

CrashDetails ==
    Object(<<Member("ixBug", Number(7)), Member("sProject", String("Inbox")),
             Member("ixProject", Number(1)), Member("hrsCurrEst", Number(4)),
             Member("hrsOrigEst", Number(3)),
             Member("sPersonAssignedTo", String("Ann")),
             Member("ixPersonAssignedTo", Number(3))>>)

\* A case whose estimate is sent as a string.
TypoDetails ==
    Object(<<Member("ixBug", Number(12)), Member("sProject", String("Website")),
             Member("ixProject", Number(2)), Member("hrsCurrEst", String("2"))>>)

SearchResponses ==
    { NoResponse,
      Response(TRUE, TRUE, Object(<<NoErrors>>)),
      Response(TRUE, TRUE,
               Object(<<NoErrors,
                        Cases(<<TypoDetails, CrashDetails,
                                Object(<<Member("sProject", String("Inbox"))>>)>>)>>)) }

\* The orders a HashSet or a HashMap of the case ids 7 and 12 iterates in.
HashOrders == {<<7, 12>>, <<12, 7>>}

\* case_details requests with and without columns.
CaseDetailsRequests ==
    { [client |-> Limited, case_id |-> 7, cols |-> None],
      [client |-> Unlimited, case_id |-> 7, cols |-> Some(<<"sTitle", "events">>)],
      [client |-> NoScheme, case_id |-> 7, cols |-> None] }

\* An event of a case, and the case with its events.
OpenedEvent ==
    Object(<<Member("evt", Number(1)), Member("evtDescription", String("Opened by Ann")),
             Member("dt", String("2024-01-01T09:00:00Z")),
             Member("ixPerson", Number(3)), Member("sPerson", String("Ann")),
             Member("ixPersonAssignedTo", Null),
             Member("s", String("It crashes"))>>)

DetailedCase(category, events) ==
    Object(<<Member("ixBug", Number(7)), Member("sTitle", String("Crash")),
             Member("sProject", String("Inbox")), Member("fOpen", Bool(TRUE)),
             Member("sArea", String("Misc")), Member("ixStatus", Number(1)),
             Member("ixPriority", Number(3)), Member("ixCategory", Number(category)),
             Member("events", events)>>)

\* No response, a failure, a case whose events hold a string among them, a
\* case next to reported errors, a case of no known category, a case with
\* no events, a case that is a string, and no case at all.
DetailsResponses ==
    { NoResponse,
      Response(TRUE, FALSE, Object(<<NotLoggedIn>>)),
      Response(TRUE, TRUE,
               Object(<<NoErrors,
                        Cases(<<DetailedCase(1, Array(<<OpenedEvent, String("")>>))>>)>>)),
      Response(TRUE, TRUE,
               Object(<<NotLoggedIn,
                        Cases(<<DetailedCase(2, Array(<<>>))>>)>>)),
      Response(TRUE, TRUE,
               Object(<<NoErrors, Cases(<<DetailedCase(9, Array(<<>>))>>)>>)),
      Response(TRUE, TRUE, Object(<<NoErrors, Cases(<<BareCase>>)>>)),
      Response(TRUE, TRUE, Object(<<NoErrors, Cases(<<String("7")>>)>>)),
      Response(TRUE, TRUE, Object(<<NotLoggedIn, Cases(<<>>)>>)) }

\* What the remote may answer to the request at hand.
ResponsesTo(request) ==
    CASE request.op = "send_command" -> Responses
      [] request.op = "list_cases" -> ListResponses
      [] request.op = "case_details" -> DetailsResponses
      [] request.op = "aggregate_hours" ->
            IF request.stage = 1 THEN IntervalResponses ELSE SearchResponses

\* `.send().await?` is over.  With no response the `?` ends the command
\* there; with one, the request has read its status and goes on to wait
\* for the body.
Respond ==
    \E t \in InFlight :
        /\ tasks[t].todo # <<>> /\ Head(tasks[t].todo) = "send"
        /\ \/ /\ NoResponse \in ResponsesTo(tasks[t])
              /\ \E ids_order \in HashOrders, map_order \in HashOrders :
                    resume(t, [tasks[t] EXCEPT !.responses = Append(@, NoResponse)],
                           NoResponse, ids_order, map_order)
           \/ /\ \E response \in ResponsesTo(tasks[t]) :
                    /\ response.arrived
                    /\ tasks' = [tasks EXCEPT ![t] =
                          [@ EXCEPT !.todo = Tail(@),
                                    !.status = IF response.success
                                               THEN "success" ELSE "failure"]]
              /\ UNCHANGED <<last, calls>>
        /\ UNCHANGED <<permits, posts, builder_vars, pair, pair_log>>

\* `response.json().await?` is over: the request runs from the body of the
\* response whose status it has read to its return or to its next command.
ReadBody ==
    \E t \in InFlight :
        /\ tasks[t].todo # <<>> /\ Head(tasks[t].todo) = "json"
        /\ \E response \in ResponsesTo(tasks[t]),
              ids_order \in HashOrders, map_order \in HashOrders :
               /\ response.arrived
               /\ response.success = (tasks[t].status = "success")
               /\ resume(t, [tasks[t] EXCEPT !.responses = Append(@, response)],
                         response, ids_order, map_order)
        /\ UNCHANGED <<permits, posts, builder_vars, pair, pair_log>>

(***************************************************************************)
(* SpecCommand: commands sent through clients with and without a rate      *)
(* limiter, with good and bad base URLs, and case_details requests, the    *)
(* remote answering anything.                                              *)
(***************************************************************************)
\* client.send_command(cmd, params)
CallSendCommand ==
    \E t \in Tasks, self \in CommandRequests :
        /\ t = "B" => self \in CommandsBeside
        /\ Begin(t, "send_command", self, <<Command(self.cmd, self.params)>>)

\* client.case_details(case_id).build().send()
CallCaseDetails ==
    \E self \in CaseDetailsRequests :
        Begin("A", "case_details", self, <<>>)

NextCommand == CallSendCommand \/ CallCaseDetails \/ Acquire \/ Post \/ Respond
        \/ ReadBody

SpecCommand == Init /\ [][NextCommand]_vars

(***************************************************************************)
(* SpecListCases: list_cases requests with no filter, saved-filter ids,    *)
(* near-ids and queries built by FogBugzSearchBuilder.                     *)
(***************************************************************************)
CallListCases ==
    \E t \in Tasks, self \in ListCasesRequests \cup ListCasesBeside :
        /\ t = "B" => self \in ListCasesBeside
        /\ Begin(t, "list_cases", self, <<list_cases_command(self)>>)

NextListCases == CallListCases \/ Acquire \/ Post \/ Respond
        \/ ReadBody

SpecListCases == Init /\ [][NextListCases]_vars

(***************************************************************************)
(* SpecHours: aggregate_hours requests, the remote holding time on cases   *)
(* of two projects.                                                        *)
(***************************************************************************)
CallAggregateHours ==
    \E t \in Tasks, self \in HoursRequests \cup HoursBeside :
        /\ t = "B" => self \in HoursBeside
        /\ Begin(t, "aggregate_hours", self,
                 <<Command("listIntervals", list_intervals_params(self))>>)

NextHours == CallAggregateHours \/ Acquire \/ Post \/ Respond
        \/ ReadBody

SpecHours == Init /\ [][NextHours]_vars


(***************************************************************************)
(* Notions the claims are stated with.                                     *)
(***************************************************************************)
\* s is empty or whitespace-only.
Blank(s) == \A i \in 1..Len(s) : s[i] \in {SP, TAB}

\* The call made last, and the clause a call renders to when it is the only
\* call made on a new builder ("" when the call is dropped).
LastCall == log[Len(log)]

ClauseOf(c) == build(call_method(new, c))

\* r followed by one more clause, separated by a single space.
WithClause(r, clause) ==
    IF clause = <<>> THEN r
    ELSE IF r = <<>> THEN clause
    ELSE r \o <<SP>> \o clause

(***************************************************************************)
(* C1  Insertion order is render order: the built string is the clauses of *)
(* the calls made so far, each rendered as that call alone renders, in     *)
(* the order the calls were made, whatever the kinds of the components.    *)
(***************************************************************************)
C1_InsertionOrderIsRenderOrder ==
    LET E[i \in 0..Len(log)] ==
            IF i = 0 THEN <<>> ELSE WithClause(E[i - 1], ClauseOf(log[i]))
    IN  build(components) = E[Len(log)]

\* An OR-group followed by an order-by: "<A> <B>", the two clauses differing.
C1_Witness ==
    /\ Len(log) = 2
    /\ Len(components) = 2
    /\ components[1].kind = "Or"
    /\ log[2].op = "order_by"
    /\ stringify(components[1]) # stringify(components[2])
    /\ build(components) = stringify(components[1]) \o <<SP>> \o stringify(components[2])

(***************************************************************************)
(* C2  End-to-end vector: the chain of test_complex_query, made in its     *)
(* order, builds exactly the string the test asserts.                      *)
(***************************************************************************)
ComplexQueryMade ==
    /\ Len(log) = Len(ComplexQueryCalls)
    /\ \A i \in 1..Len(log) : SameCall(log[i], ComplexQueryCalls[i])

C2_ComplexQueryVector ==
    ComplexQueryMade => build(components) = ComplexQueryExpected

\* The whole chain has been made, in order, and every call was accepted.
C2_Witness ==
    /\ ComplexQueryMade
    /\ Len(components) = Len(ComplexQueryCalls)

\* A step that makes one more call on the builder.
CallStep == Len(log') = Len(log) + 1

\* The call a step makes.
StepCall == log'[Len(log')]

\* The component stored last.
LastComponent == components[Len(components)]

\* The quoting condition as the documentation of the value rule states it:
\* v contains a space, a ':', a '"', the substring "..", or starts with '-'.
NeedsQuotingRule(v) ==
    \/ \E i \in 1..Len(v) : v[i] \in {SP, COLON, QUOTE}
    \/ \E i \in 1..(Len(v) - 1) : v[i] = DOT /\ v[i + 1] = DOT
    \/ (v # <<>> /\ v[1] = DASH)

\* v is wrapped in a matching pair of double quotes.
Wrapped(v) == Len(v) >= 2 /\ v[1] = QUOTE /\ v[Len(v)] = QUOTE

\* The Axis and NegatedAxis components stored in the builder, those inside
\* OR-groups included.
AxisComponents ==
    LET top == {components[i] : i \in 1..Len(components)}
        groups == {c \in top : c.kind = "Or"}
        inner == UNION {{g.components[i] : i \in 1..Len(g.components)} : g \in groups}
    IN  {c \in top \cup inner : c.kind \in {"Axis", "NegatedAxis"}}

\* What precedes the value in the clause of an Axis / NegatedAxis component.
AxisPrefix(c) ==
    IF c.kind = "Axis" THEN c.axis \o <<COLON>> ELSE <<DASH>> \o c.axis \o <<COLON>>

OrderByName == <<"O", "r", "d", "e", "r", "B", "y">>

(***************************************************************************)
(* C3  Blank input is a silent no-op: a call of term, phrase,              *)
(* negated_term, axis, negated_axis, exact_axis or order_by with a blank   *)
(* argument (either argument of the two-argument methods) leaves the       *)
(* component sequence, and so the built string, unchanged.                 *)
(***************************************************************************)
BlankCallArgs(c) ==
    \/ c.op \in {"term", "phrase", "negated_term", "order_by"} /\ Blank(c.a)
    \/ c.op \in {"axis", "negated_axis", "exact_axis"} /\ (Blank(c.a) \/ Blank(c.b))

C3_BlankInputIsNoOp ==
    [][(CallStep /\ BlankCallArgs(StepCall)) =>
            /\ components' = components
            /\ build(components') = build(components)]_vars

\* negated_axis with a name and a whitespace-only value was called on a
\* builder that holds components, and the builder still is that seed.
C3_Witness ==
    /\ log # <<>>
    /\ LastCall.op = "negated_axis"
    /\ ~Blank(LastCall.a)
    /\ LastCall.b # <<>> /\ Blank(LastCall.b)
    /\ components # <<>>
    /\ components \in Seeds

(***************************************************************************)
(* C4  Stored-field invariant: every text, axis name and query value held  *)
(* by a stored component, the children of OR-groups included, is          *)
(* non-empty after trimming whitespace.                                    *)
(***************************************************************************)
RECURSIVE FieldsNonBlank(_)
FieldsNonBlank(c) ==
    CASE c.kind \in {"Term", "Phrase", "NegatedTerm"} -> ~Blank(c.text)
      [] c.kind \in {"Axis", "NegatedAxis", "ExactAxis"} -> ~Blank(c.axis) /\ ~Blank(c.query)
      [] c.kind = "Or" -> \A i \in 1..Len(c.components) : FieldsNonBlank(c.components[i])

C4_StoredFieldsNonBlank ==
    \A i \in 1..Len(components) : FieldsNonBlank(components[i])

\* negated_term was given dashes followed by padded text: what is stored
\* starts with whitespace and is not blank.
C4_Witness ==
    /\ log # <<>>
    /\ LastCall.op = "negated_term"
    /\ components # <<>>
    /\ LastComponent.kind = "NegatedTerm"
    /\ is_whitespace(LastComponent.text[1])
    /\ ~Blank(LastComponent.text)

(***************************************************************************)
(* C5  An or() call whose callback adds nothing, or only blank inputs,     *)
(* creates no component: the sequence is unchanged and an otherwise-empty  *)
(* builder builds "" rather than "()".  So every OR-group component of a   *)
(* reachable builder has a non-empty child list.                           *)
(***************************************************************************)
BlankOrCall(c) ==
    \/ c.m \in {"term", "phrase", "assigned_to", "resolved_by", "edited_by"} /\ Blank(c.a)
    \/ c.m = "axis" /\ (Blank(c.a) \/ Blank(c.b))

BlankCallback(script) == \A i \in 1..Len(script) : BlankOrCall(script[i])

C5_BlankOrGroupCreatesNothing ==
    /\ [](\A i \in 1..Len(components) :
              components[i].kind = "Or" => components[i].components # <<>>)
    /\ [][(CallStep /\ StepCall.op = "or" /\ BlankCallback(StepCall.a)) =>
              /\ components' = components
              /\ (components = <<>> => build(components') = <<>>)]_vars

\* or() was called on a new builder with a callback of two blank calls.
C5_Witness ==
    /\ log # <<>>
    /\ LastCall.op = "or"
    /\ Len(LastCall.a) = 2
    /\ BlankCallback(LastCall.a)
    /\ components = <<>>
    /\ build(components) = <<>>

(***************************************************************************)
(* C6  Quoting rule for Axis and NegatedAxis values: a stored value v that *)
(* needs quoting and is not wrapped in a matching pair of double quotes    *)
(* renders as '"' + v with every '"' escaped + '"'; a value that does not  *)
(* need quoting renders as v.  The two kinds differ only by the leading    *)
(* '-' before the name.                                                    *)
(***************************************************************************)
C6_QuotingRule ==
    \A c \in AxisComponents :
        /\ (NeedsQuotingRule(c.query) /\ ~Wrapped(c.query)) =>
               stringify(c) = AxisPrefix(c) \o <<QUOTE>> \o escape_quotes(c.query) \o <<QUOTE>>
        /\ ~NeedsQuotingRule(c.query) => stringify(c) = AxisPrefix(c) \o c.query

(***************************************************************************)
(* C7  Already-quoted axis values: a value that needs quoting and is       *)
(* wrapped in a pair of double quotes renders with the surrounding quotes  *)
(* as they are and only the double quotes between them escaped;            *)
(* axis("project", "\"Widget Factory\"") renders project:"Widget Factory". *)
(***************************************************************************)
C7_WrappedValueKeepsItsQuotes ==
    \A c \in AxisComponents :
        (NeedsQuotingRule(c.query) /\ Wrapped(c.query)) =>
            stringify(c) = AxisPrefix(c) \o <<QUOTE>>
                               \o escape_quotes(SubSeq(c.query, 2, Len(c.query) - 1))
                               \o <<QUOTE>>

(***************************************************************************)
(* C8  order_by(axis, descending) with a non-blank axis appends exactly    *)
(* one Axis component named "OrderBy" whose value is the trimmed axis,     *)
(* prefixed with '-' iff descending.  The descending form renders quoted,  *)
(* OrderBy:"-<axis>" (a '"' of the axis escaped, as in every quoted        *)
(* value); order_by("Milestone", false) renders OrderBy:Milestone; the     *)
(* clause comes after the clauses of the earlier calls.                    *)
(***************************************************************************)
C8_OrderByAppendsOneOrderByAxis ==
    [][(CallStep /\ StepCall.op = "order_by" /\ ~Blank(StepCall.a)) =>
           LET a == trim(StepCall.a)
               value == IF StepCall.b THEN <<DASH>> \o a ELSE a
               added == [kind |-> "Axis", axis |-> OrderByName, query |-> value]
           IN  /\ components' = components \o <<added>>
               /\ StepCall.b =>
                      build(components') =
                          WithClause(build(components),
                                     OrderByName \o <<COLON, QUOTE, DASH>>
                                         \o escape_quotes(a) \o <<QUOTE>>)
               /\ (~StepCall.b /\ a = <<"M", "i", "l", "e", "s", "t", "o", "n", "e">>) =>
                      build(components') =
                          WithClause(build(components), OrderByName \o <<COLON>> \o a)]_vars

\* A descending order_by with a padded axis was called on a builder whose
\* last clause already was an OrderBy; there are now two, in call order.
C8_Witness ==
    /\ log # <<>>
    /\ LastCall.op = "order_by"
    /\ LastCall.b
    /\ LastCall.a # trim(LastCall.a)
    /\ Len(components) >= 2
    /\ components[Len(components) - 1].kind = "Axis"
    /\ components[Len(components) - 1].axis = OrderByName
    /\ LastComponent.kind = "Axis"
    /\ LastComponent.axis = OrderByName
    /\ LastComponent.query = <<DASH>> \o trim(LastCall.a)

(***************************************************************************)
(* C9  As claimed: ascending sort directives are never quoted; for every   *)
(* non-blank axis name a, order_by(a, false) renders as OrderBy: followed  *)
(* by the trimmed name with no surrounding double quotes.                  *)
(***************************************************************************)
AscendingOrderByMade ==
    /\ log # <<>>
    /\ LastCall.op = "order_by"
    /\ ~LastCall.b
    /\ ~Blank(LastCall.a)
    /\ components # <<>>

C9_AscendingNeverQuoted ==
    AscendingOrderByMade =>
        stringify(LastComponent) = OrderByName \o <<COLON>> \o trim(LastCall.a)

(***************************************************************************)
(* C9  As amended: an ascending directive is quoted only by the ordinary   *)
(* value rule.  For every non-blank axis name a whose trimmed form holds   *)
(* no space, ':' , '"' or ".." and does not start with '-',                *)
(* order_by(a, false) renders OrderBy: followed by the trimmed name with   *)
(* no surrounding double quotes; a trimmed name that does hold one of      *)
(* them, and does not start with '"', renders inside double quotes.        *)
(***************************************************************************)
C9_AscendingQuotedOnlyByValueRule ==
    AscendingOrderByMade =>
        LET a == trim(LastCall.a)
        IN  /\ ~NeedsQuotingRule(a) =>
                   stringify(LastComponent) = OrderByName \o <<COLON>> \o a
            /\ (NeedsQuotingRule(a) /\ a[1] # QUOTE) =>
                   stringify(LastComponent) =
                       OrderByName \o <<COLON, QUOTE>> \o escape_quotes(a) \o <<QUOTE>>

\* An ascending order_by with a padded name holding a wildcard: unquoted.
C9_Witness ==
    /\ AscendingOrderByMade
    /\ LastCall.a # trim(LastCall.a)
    /\ contains(LastCall.a, STAR)
    /\ ~NeedsQuotingRule(trim(LastCall.a))
    /\ stringify(LastComponent) = OrderByName \o <<COLON>> \o trim(LastCall.a)

(***************************************************************************)
(* C10  No double negative: negated_term(t) appends nothing when t is      *)
(* blank or all '-' after trimming, and otherwise appends one NegatedTerm  *)
(* whose stored text does not start with '-', so that the clause begins    *)
(* with exactly one '-'; "peach" and "-peach" both render -peach.          *)
(***************************************************************************)
OnlyDashes(s) == \A i \in 1..Len(s) : s[i] = DASH

C10_NoDoubleNegative ==
    [][(CallStep /\ StepCall.op = "negated_term") =>
           LET t == StepCall.a
           IN  IF Blank(t) \/ OnlyDashes(trim(t))
               THEN components' = components
               ELSE /\ Len(components') = Len(components) + 1
                    /\ SubSeq(components', 1, Len(components)) = components
                    /\ LET c == components'[Len(components')]
                           clause == stringify(c)
                       IN  /\ c.kind = "NegatedTerm"
                           /\ c.text # <<>>
                           /\ c.text[1] # DASH
                           /\ clause[1] = DASH
                           /\ clause[2] # DASH
                           /\ build(components') = WithClause(build(components), clause)
                           /\ t \in {<<"p", "e", "a", "c", "h">>,
                                     <<DASH, "p", "e", "a", "c", "h">>} =>
                                  clause = <<DASH, "p", "e", "a", "c", "h">>]_vars

\* negated_term("-peach") was called and "peach" is what is stored.
C10_Witness ==
    /\ log # <<>>
    /\ LastCall.op = "negated_term"
    /\ LastCall.a = <<DASH, "p", "e", "a", "c", "h">>
    /\ components # <<>>
    /\ LastComponent = [kind |-> "NegatedTerm", text |-> <<"p", "e", "a", "c", "h">>]

(***************************************************************************)
(* C11  negated_axis(name, value) trims both arguments and strips the      *)
(* leading '-' characters of the trimmed name, not of the value.  Nothing  *)
(* is appended when the name is empty after stripping or the value is      *)
(* empty after trimming; otherwise one NegatedAxis is appended whose name  *)
(* does not start with '-' and whose value is the trimmed value, leading   *)
(* '-' included.  The clause is '-' + name + ':' + the value formatted as  *)
(* in an Axis clause; a value that starts with '-' is rendered inside      *)
(* double quotes.                                                          *)
(***************************************************************************)
\* s without its leading '-' characters.
AfterDashes(s) ==
    LET first == {i \in 1..Len(s) : s[i] # DASH}
    IN  IF first = {} THEN <<>>
        ELSE SubSeq(s, CHOOSE i \in first : \A j \in first : i <= j, Len(s))

C11_NegatedAxisStripsNameOnly ==
    [][(CallStep /\ StepCall.op = "negated_axis") =>
           LET name == AfterDashes(trim(StepCall.a))
               value == trim(StepCall.b)
           IN  IF name = <<>> \/ value = <<>>
               THEN components' = components
               ELSE /\ components' =
                           components \o <<[kind |-> "NegatedAxis", axis |-> name, query |-> value]>>
                    /\ name[1] # DASH
                    /\ LET clause == stringify(components'[Len(components')])
                           as_axis == stringify([kind |-> "Axis", axis |-> name, query |-> value])
                       IN  /\ clause = <<DASH>> \o as_axis
                           /\ SubSeq(clause, 1, Len(name) + 2) = <<DASH>> \o name \o <<COLON>>
                           /\ value[1] = DASH =>
                                  clause = <<DASH>> \o name \o <<COLON, QUOTE>>
                                               \o escape_quotes(value) \o <<QUOTE>>
                           /\ (StepCall.a = <<"t", "i", "t", "l", "e">>
                                   /\ StepCall.b = <<"p", "e", "a", "r">>) =>
                                  clause = <<DASH, "t", "i", "t", "l", "e", COLON, "p", "e", "a", "r">>
                           /\ build(components') = WithClause(build(components), clause)]_vars

\* negated_axis was called with a dashed name and a padded value that starts
\* with '-': the name is stored without its dashes, the value with its own.
C11_Witness ==
    /\ log # <<>>
    /\ LastCall.op = "negated_axis"
    /\ LastCall.a = <<DASH, DASH, "n">>
    /\ LastCall.b # trim(LastCall.b)
    /\ components # <<>>
    /\ LastComponent.kind = "NegatedAxis"
    /\ LastComponent.axis = <<"n">>
    /\ LastComponent.query[1] = DASH
    /\ stringify(LastComponent)
           = <<DASH, "n", COLON, QUOTE>> \o LastComponent.query \o <<QUOTE>>

(***************************************************************************)
(* C12  Exact-axis clauses are never auto-quoted: for every accepted       *)
(* (name, value), exact_axis appends one ExactAxis of the trimmed name     *)
(* and value, whose clause is name + ":=" + value with every '"' replaced  *)
(* by '\"'.  No surrounding quotes are added, whether or not the value     *)
(* holds a space, a ':', ".." or a leading '-': the clause has exactly as  *)
(* many '"' as the value, each one preceded by a backslash.                *)
(***************************************************************************)
\* The number of positions of s that hold the character c.
CountOf(s, c) == Cardinality({i \in 1..Len(s) : s[i] = c})

C12_ExactAxisNeverQuoted ==
    [][(CallStep /\ StepCall.op = "exact_axis" /\ ~Blank(StepCall.a) /\ ~Blank(StepCall.b)) =>
           LET name == trim(StepCall.a)
               value == trim(StepCall.b)
               clause == stringify(components'[Len(components')])
               rest == SubSeq(clause, Len(name) + 3, Len(clause))
           IN  /\ components' =
                      components \o <<[kind |-> "ExactAxis", axis |-> name, query |-> value]>>
               /\ clause = name \o <<COLON, "=">> \o escape_quotes(value)
               /\ CountOf(rest, QUOTE) = CountOf(value, QUOTE)
               /\ Len(rest) = Len(value) + CountOf(value, QUOTE)
               /\ \A i \in 1..Len(rest) :
                      rest[i] = QUOTE => (i > 1 /\ rest[i - 1] = BACKSLASH)
               /\ ~contains(value, QUOTE) => rest = value
               /\ build(components') = WithClause(build(components), clause)]_vars

\* exact_axis was called with a value that starts with '-' and holds a
\* space: the clause ends with the value as it is, no quotes around it.
C12_Witness ==
    /\ log # <<>>
    /\ LastCall.op = "exact_axis"
    /\ components # <<>>
    /\ LastComponent.kind = "ExactAxis"
    /\ LastComponent.query[1] = DASH
    /\ contains(LastComponent.query, SP)
    /\ NeedsQuotingRule(LastComponent.query)
    /\ stringify(LastComponent)
           = LastComponent.axis \o <<COLON, "=">> \o LastComponent.query

(***************************************************************************)
(* C13  A phrase is always rendered quoted: the clause of a stored phrase  *)
(* text t is '"' + t with every '"' replaced by '\"' + '"'.  A double      *)
(* quote is escaped when a backslash stands before it, which is how the    *)
(* claim itself tells the quotes of t from the two that delimit.           *)
(***************************************************************************)
\* t with a backslash put before each of its double quotes.
WithQuotesEscaped(t) ==
    LET E[i \in 0..Len(t)] ==
            IF i = 0 THEN <<>>
            ELSE E[i - 1] \o (IF t[i] = QUOTE THEN <<BACKSLASH, QUOTE>> ELSE <<t[i]>>)
    IN  E[Len(t)]

\* The Phrase components stored in the builder, those inside OR-groups included.
PhraseComponents ==
    LET top == {components[i] : i \in 1..Len(components)}
        groups == {c \in top : c.kind = "Or"}
        inner == UNION {{g.components[i] : i \in 1..Len(g.components)} : g \in groups}
    IN  {c \in top \cup inner : c.kind = "Phrase"}

\* The double quote at position i of s has no backslash before it.
Unescaped(s, i) == s[i] = QUOTE /\ (i = 1 \/ s[i - 1] # BACKSLASH)

\* The clause of the phrase c is '"' + t with its quotes escaped + '"': it
\* starts with an unescaped double quote, ends with a double quote, and
\* between the two every double quote (there are as many as in t) is
\* preceded by a backslash; the phrase of test_quote_escaping renders as the
\* test expects.
RenderedQuoted(c) ==
    LET clause == stringify(c)
        between == SubSeq(clause, 2, Len(clause) - 1)
    IN  /\ clause = <<QUOTE>> \o WithQuotesEscaped(c.text) \o <<QUOTE>>
        /\ Len(clause) >= 3
        /\ Unescaped(clause, 1)
        /\ clause[Len(clause)] = QUOTE
        /\ CountOf(between, QUOTE) = CountOf(c.text, QUOTE)
        /\ \A i \in 1..Len(between) :
               between[i] = QUOTE => (i > 1 /\ between[i - 1] = BACKSLASH)
        /\ c.text = QuoteEscapingPhrase =>
               clause = <<"\"", "a", "p", "p", "l", "e", " ", "\\", "\"", "r", "e", "d",
                          "\\", "\"", " ", "p", "e", "a", "c", "h", "\"">>

\* C13 as stated: for every accepted phrase text t the clause is '"' + t
\* with every '"' replaced by '\"' + '"', so the output starts AND ENDS with
\* an unescaped double quote and every double quote of t appears preceded
\* by a backslash.
C13_PhraseEndsUnescaped ==
    \A c \in PhraseComponents :
        /\ RenderedQuoted(c)
        /\ Unescaped(stringify(c), Len(stringify(c)))

\* C13, amended: for every accepted phrase text t the clause is '"' + t with
\* every '"' replaced by '\"' + '"'; it starts with an unescaped double
\* quote and ends with a double quote, every double quote of t appears
\* preceded by a backslash, and the closing quote is unescaped exactly when
\* t does not end with a backslash: the backslashes of t are copied as they
\* are, so a t that ends with one renders with a backslash before the
\* closing quote.
C13_PhraseQuotedAsWritten ==
    \A c \in PhraseComponents :
        /\ RenderedQuoted(c)
        /\ Unescaped(stringify(c), Len(stringify(c)))
               <=> c.text[Len(c.text)] # BACKSLASH

\* phrase("apple \"red\" peach") was called and its clause is the last one built.
C13_Witness ==
    /\ log # <<>>
    /\ LastCall.op = "phrase"
    /\ LastCall.a = QuoteEscapingPhrase
    /\ components # <<>>
    /\ LastComponent = [kind |-> "Phrase", text |-> QuoteEscapingPhrase]
    /\ CountOf(stringify(LastComponent), BACKSLASH) = 2
    /\ build(components) = WithClause(build(SubSeq(components, 1, Len(components) - 1)),
                                       stringify(LastComponent))

(***************************************************************************)
(* C14  OR-group rendering: an or() call whose callback adds the children  *)
(* c1..cn (n >= 1) appends one group that renders "(" + render(c1) +       *)
(* " OR " + ... + " OR " + render(cn) + ")", the children in the order the *)
(* callback added them and each child rendered as the same component       *)
(* renders at the top level; a one-child group renders "(" + render(c1) +  *)
(* ")".  or(|or| or.term("a").term("b")) renders (a OR b).                 *)
(***************************************************************************)
\* The calls of a callback that add a child, in the order they are made.
AddingCalls(script) == SelectSeq(script, LAMBDA c : ~BlankOrCall(c))

\* The child a call of a callback adds.
ChildOf(c) == OrBuilder_call(OrBuilder_new, c)[1]

\* parts[1] + " OR " + parts[2] + ... for a non-empty sequence of strings.
JoinedWithOr(parts) ==
    LET J[i \in 1..Len(parts)] ==
            IF i = 1 THEN parts[1] ELSE J[i - 1] \o <<SP, "O", "R", SP>> \o parts[i]
    IN  J[Len(parts)]

C14_OrGroupRendering ==
    [][(CallStep /\ StepCall.op = "or" /\ AddingCalls(StepCall.a) # <<>>) =>
           LET adding == AddingCalls(StepCall.a)
               n == Len(adding)
               g == components'[Len(components')]
               clauses == [i \in 1..n |-> build(<<ChildOf(adding[i])>>)]
           IN  /\ Len(components') = Len(components) + 1
               /\ g.kind = "Or"
               /\ g.components = [i \in 1..n |-> ChildOf(adding[i])]
               /\ \A i \in 1..n : g.components[i].kind \in {"Term", "Phrase", "Axis"}
               /\ stringify(g) = <<"(">> \o JoinedWithOr(clauses) \o <<")">>
               /\ n = 1 => stringify(g) = <<"(">> \o clauses[1] \o <<")">>
               /\ (\A i \in 1..n : adding[i].m = "term") =>
                      stringify(g) = <<"(">> \o JoinedWithOr([i \in 1..n |-> adding[i].a])
                                          \o <<")">>
               /\ build(components') = WithClause(build(components), stringify(g))]_vars

\* or() was called with a callback adding a term, a phrase and an axis
\* clause: the group holds the three, in that order, and renders
\* (a OR "b c" OR n:v).
C14_Witness ==
    /\ log # <<>>
    /\ LastCall.op = "or"
    /\ components # <<>>
    /\ LastComponent.kind = "Or"
    /\ Len(LastComponent.components) = 3
    /\ LastComponent.components[1].kind = "Term"
    /\ LastComponent.components[2].kind = "Phrase"
    /\ LastComponent.components[3].kind = "Axis"
    /\ stringify(LastComponent)
           = <<"(", "a", SP, "O", "R", SP, QUOTE, "b", SP, "c", QUOTE, SP, "O", "R", SP,
               "n", COLON, "v", ")">>

(***************************************************************************)
(* C15  Rendering is idempotent and non-mutating: a Display rendering      *)
(* leaves the component sequence unchanged, renderings made with no        *)
(* append between them return the identical string, and the Display        *)
(* rendering and build() return the same string for the same sequence.     *)
(***************************************************************************)
RenderOps == {"fmt", "build"}

\* The entries i..j of the log are all renderings.
OnlyRenderings(i, j) == \A k \in i..j : log[k].op \in RenderOps

C15_RenderingIdempotentNonMutating ==
    /\ [](fmt(components) = build(components))
    /\ [](\A i \in 1..Len(log) : \A j \in i..Len(log) :
              OnlyRenderings(i, j) => log[i].a = log[j].a)
    /\ [][(CallStep /\ StepCall.op = "fmt") =>
              /\ components' = components
              /\ StepCall.a = fmt(components')
              /\ StepCall.a = build(components')]_vars

\* Two clauses were appended, then the builder was displayed twice and
\* built: the three renderings returned the same two-clause string.
C15_Witness ==
    /\ Len(log) = 5
    /\ Len(components) = 2
    /\ log[3].op = "fmt"
    /\ log[4].op = "fmt"
    /\ log[5].op = "build"
    /\ log[3].a = log[4].a
    /\ log[4].a = log[5].a
    /\ log[5].a = stringify(components[1]) \o <<SP>> \o stringify(components[2])

(***************************************************************************)
(* C16  There is no finalize step: after a rendering the builder still     *)
(* accepts appends, and every rendering returns the clauses of all the     *)
(* components appended before it (appends A, a rendering, append B, a      *)
(* rendering: the second one returns what A then B renders).               *)
(***************************************************************************)
\* The builder that the appending calls among the first j - 1 entries of
\* the log make, applied in order to a new builder.
AppendedBefore(j) ==
    LET B[i \in 0..(j - 1)] ==
            IF i = 0 THEN new
            ELSE IF log[i].op \in RenderOps THEN B[i - 1]
            ELSE call_method(B[i - 1], log[i])
    IN  B[j - 1]

C16_NoFinalizeStep ==
    /\ \A j \in 1..Len(log) :
           log[j].op \in RenderOps => log[j].a = build(AppendedBefore(j))
    /\ (log # <<>> /\ LastCall.op \in RenderOps /\ Len(log) < MaxSteps) =>
           ENABLED RenderAppend

(***************************************************************************)
(* C17  The composer never fails: whatever the arguments, every call       *)
(* returns a builder (a sequence of components of the seven kinds), every  *)
(* builder state, before and after the call, can be rendered to a string   *)
(* by Display and by build(), and the unreachable!() arm of the            *)
(* Axis / NegatedAxis branch is executed for no stored component.          *)
(***************************************************************************)
Kinds == {"Term", "Phrase", "NegatedTerm", "Axis", "NegatedAxis", "ExactAxis", "Or"}

\* The components stored in the builder, those inside OR-groups included.
AllComponents ==
    LET top == {components[i] : i \in 1..Len(components)}
        groups == {c \in top : c.kind = "Or"}
    IN  top \cup UNION {{g.components[i] : i \in 1..Len(g.components)} : g \in groups}

\* s is a string: the rendering that produced it did not panic.
Rendered(s) == \A i \in 1..Len(s) : s[i] # unreachable[1]

C17_ComposerNeverFails ==
    /\ \A c \in AllComponents :
           /\ c.kind \in Kinds
           /\ c.kind \in {"Axis", "NegatedAxis"} => axis_clause(c) # unreachable
           /\ Rendered(stringify(c))
    /\ Rendered(fmt(components))
    /\ Rendered(build(components))

\* missing_axis stored a NegatedAxis behind an Axis and an OR-group that
\* holds one; the builder renders, the three clauses included.
C17_Witness ==
    /\ log # <<>>
    /\ LastCall.op = "missing_axis"
    /\ Len(components) = 4
    /\ LastComponent.kind = "NegatedAxis"
    /\ \E c \in AllComponents : c.kind = "Axis"
    /\ \E c \in AllComponents : c.kind = "Or"
    /\ Rendered(build(components))
    /\ build(components) =
           build(SubSeq(components, 1, 3)) \o <<SP>> \o stringify(LastComponent)

(***************************************************************************)
(* C18  Append-only log: a new builder holds the empty sequence, and every *)
(* builder operation either leaves the component sequence as it is or      *)
(* extends it by exactly one component at the end; the old sequence is     *)
(* always a prefix of the new one, its components unchanged and in place.  *)
(***************************************************************************)
C18_AppendOnly ==
    /\ new = <<>>
    /\ [](log = <<>> => components = new)
    /\ [][CallStep =>
              \/ components' = components
              \/ /\ Len(components') = Len(components) + 1
                 /\ \A i \in 1..Len(components) : components'[i] = components[i]]_vars

\* Two calls were made: the first appended a component, the second, a
\* term of whitespace, left the sequence as it was.
C18_Witness ==
    /\ Len(log) = 2
    /\ Len(components) = 1
    /\ components = call_method(new, log[1])
    /\ log[2].op = "term"
    /\ log[2].a # <<>>
    /\ Blank(log[2].a)

(***************************************************************************)
(* C19  term and phrase normalize by trimming: for every non-blank input,  *)
(* padded with whitespace or not, the stored text is the trimmed input     *)
(* and the clause is that of the trimmed input; term("  apple ") renders   *)
(* apple and phrase(" a b ") renders "a b".                                *)
(***************************************************************************)
C19_TermAndPhraseStoreTrimmed ==
    (log # <<>> /\ LastCall.op \in {"term", "phrase"} /\ ~Blank(LastCall.a)) =>
        LET t == trim(LastCall.a)
        IN  /\ components # <<>>
            /\ LastComponent.text = t
            /\ LastCall.op = "term" => stringify(LastComponent) = t
            /\ LastCall.op = "phrase" =>
                   stringify(LastComponent) = <<QUOTE>> \o WithQuotesEscaped(t) \o <<QUOTE>>

(***************************************************************************)
(* C20  OR-group shape: in every reachable builder state every child of    *)
(* every OR-group component is a Term, a Phrase or an Axis.  No group      *)
(* holds a NegatedTerm, a NegatedAxis, an ExactAxis or another OR-group,   *)
(* so OR-groups occur only at the top level of the sequence.               *)
(***************************************************************************)
\* The children of the OR-groups stored in the builder.
OrChildren ==
    LET groups == {components[i] : i \in {k \in 1..Len(components) : components[k].kind = "Or"}}
    IN  UNION {{g.components[i] : i \in 1..Len(g.components)} : g \in groups}

C20_OrGroupShape ==
    /\ \A i \in 1..Len(components) : components[i].kind \in Kinds
    /\ \A c \in OrChildren :
           /\ c.kind \in {"Term", "Phrase", "Axis"}
           /\ c.kind \notin {"NegatedTerm", "NegatedAxis", "ExactAxis", "Or"}
           /\ "components" \notin DOMAIN c

\* The builder holds a negated or exact clause at the top level and an
\* OR-group with a Term, a Phrase and an Axis child.
C20_Witness ==
    /\ Len(components) = 2
    /\ components[1].kind \in {"NegatedTerm", "NegatedAxis", "ExactAxis"}
    /\ components[2].kind = "Or"
    /\ {components[2].components[i].kind : i \in 1..Len(components[2].components)}
           = {"Term", "Phrase", "Axis"}

(***************************************************************************)
(* C21  Each or() call hands its callback a fresh, empty sub-composer and  *)
(* appends zero or one OR-group: the group holds the children its own      *)
(* callback added and no others, the components the parent already held    *)
(* stay as they are, no child becomes a top-level clause, and the groups   *)
(* of k successive or() calls with non-empty callbacks are k separate      *)
(* parenthesized groups in call order.                                     *)
(***************************************************************************)
\* The group a callback makes on its own.
GroupOf(script) ==
    [kind |-> "Or",
     components |-> [i \in 1..Len(AddingCalls(script)) |-> ChildOf(AddingCalls(script)[i])]]

\* The or() calls made so far whose callback added a child, in call order.
AddingOrCalls ==
    SelectSeq(log, LAMBDA c : c.op = "or" /\ AddingCalls(c.a) # <<>>)

\* The OR-groups stored in the builder, in sequence order.
StoredGroups == SelectSeq(components, LAMBDA c : c.kind = "Or")

C21_OrCallsAreIndependent ==
    /\ [](/\ StoredGroups = [i \in 1..Len(AddingOrCalls) |-> GroupOf(AddingOrCalls[i].a)]
          /\ CountOf(build(components), "(") = Len(AddingOrCalls)
          /\ CountOf(build(components), ")") = Len(AddingOrCalls))
    /\ [][(CallStep /\ StepCall.op = "or") =>
              IF AddingCalls(StepCall.a) = <<>>
              THEN components' = components
              ELSE /\ components' = components \o <<GroupOf(StepCall.a)>>
                   /\ build(components') =
                          WithClause(build(components), stringify(GroupOf(StepCall.a)))]_vars

\* Two or() calls with different callbacks were made: the builder holds two
\* groups, each with the children of its own callback, rendered "(..) (..)".
C21_Witness ==
    /\ Len(log) = 2
    /\ log[1].op = "or"
    /\ log[2].op = "or"
    /\ Len(components) = 2
    /\ components[1] = GroupOf(log[1].a)
    /\ components[2] = GroupOf(log[2].a)
    /\ Len(components[1].components) = 3
    /\ Len(components[2].components) = 2
    /\ build(components) = stringify(components[1]) \o <<SP>> \o stringify(components[2])
    /\ CountOf(build(components), "(") = 2

(***************************************************************************)
(* C22  Shortcut methods are pure presets: each axis shortcut leaves the   *)
(* builder in exactly the state axis(<its fixed name>, arg) would, the     *)
(* three OrBuilder shortcuts make the group OrBuilder::axis(<name>, arg)   *)
(* would, project_id(n) is exact_axis("project", n), has_axis(a) is        *)
(* axis(a, "*") and renders a:* unquoted, missing_axis(a) is               *)
(* negated_axis(a, "*") and renders -a:* (a the name as stored).           *)
(***************************************************************************)
\* The axis shortcuts and the name each one fixes.
PresetName ==
    [project |-> <<"p", "r", "o", "j", "e", "c", "t">>,
     assigned_to |-> <<"a", "s", "s", "i", "g", "n", "e", "d", "t", "o">>,
     opened_by |-> <<"o", "p", "e", "n", "e", "d", "b", "y">>,
     edited_by |-> <<"e", "d", "i", "t", "e", "d", "b", "y">>,
     also_edited_by |-> <<"a", "l", "s", "o", "e", "d", "i", "t", "e", "d", "b", "y">>,
     resolved_by |-> <<"r", "e", "s", "o", "l", "v", "e", "d", "b", "y">>,
     status |-> <<"s", "t", "a", "t", "u", "s">>,
     tag |-> <<"t", "a", "g">>,
     type_is |-> <<"t", "y", "p", "e">>,
     edited_date |-> <<"e", "d", "i", "t", "e", "d">>,
     opened_date |-> <<"o", "p", "e", "n", "e", "d">>,
     resolved_date |-> <<"r", "e", "s", "o", "l", "v", "e", "d">>,
     closed_date |-> <<"c", "l", "o", "s", "e", "d">>,
     due_date |-> <<"d", "u", "e">>]

\* A callback with its OrBuilder shortcut calls written as axis calls.
WithAxisCalls(script) ==
    [i \in 1..Len(script) |->
        IF script[i].m \in {"assigned_to", "resolved_by", "edited_by"}
        THEN OrCall("axis", PresetName[script[i].m], script[i].a)
        ELSE script[i]]

C22_ShortcutsArePresets ==
    [][CallStep =>
           LET c == StepCall
           IN  /\ c.op \in DOMAIN PresetName =>
                      /\ components' = axis(components, PresetName[c.op], c.a)
                      /\ build(components') = build(axis(components, PresetName[c.op], c.a))
               /\ c.op = "or" => components' = or(components, WithAxisCalls(c.a))
               /\ c.op = "project_id" =>
                      components' = exact_axis(components, PresetName["project"], to_string(c.a))
               /\ c.op = "has_axis" =>
                      /\ components' = axis(components, c.a, <<STAR>>)
                      /\ ~Blank(c.a) =>
                             stringify(components'[Len(components')]) = trim(c.a) \o <<COLON, STAR>>
               /\ c.op = "missing_axis" =>
                      /\ components' = negated_axis(components, c.a, <<STAR>>)
                      /\ components' # components =>
                             stringify(components'[Len(components')])
                                 = <<DASH>> \o AfterDashes(trim(c.a)) \o <<COLON, STAR>>]_vars

\* or() was called with a callback calling OrBuilder::resolved_by with a
\* padded argument: the group holds one Axis named "resolvedby".
C22_Witness ==
    /\ log # <<>>
    /\ LastCall.op = "or"
    /\ LastCall.a # <<>>
    /\ LastCall.a[1].m = "resolved_by"
    /\ LastCall.a[1].a # trim(LastCall.a[1].a)
    /\ components # <<>>
    /\ LastComponent.kind = "Or"
    /\ LastComponent.components[1].kind = "Axis"
    /\ LastComponent.components[1].axis = PresetName["resolved_by"]

(***************************************************************************)
(* C23  Independent composers do not interact: however the calls of two    *)
(* builders are interleaved, each builder's sequence and rendered string   *)
(* are those its own calls make when applied alone to a new builder, and   *)
(* a call on one builder leaves the other as it is.                        *)
(***************************************************************************)
\* The builder that the calls of l make, applied in order to a new builder.
Alone(l) ==
    LET B[i \in 0..Len(l)] == IF i = 0 THEN new ELSE call_method(B[i - 1], l[i])
    IN  B[Len(l)]

C23_BuildersDoNotInteract ==
    /\ [](\A i \in 1..2 :
              /\ pair[i] = Alone(pair_log[i])
              /\ build(pair[i]) = build(Alone(pair_log[i]))
              /\ fmt(pair[i]) = fmt(Alone(pair_log[i])))
    /\ [][\A i \in 1..2 : pair_log'[i] = pair_log[i] => pair'[i] = pair[i]]_vars

\* Each builder received two calls; the two now hold different sequences,
\* two components each.
C23_Witness ==
    /\ Len(pair_log[1]) = 2
    /\ Len(pair_log[2]) = 2
    /\ pair_log[1] # pair_log[2]
    /\ Len(pair[1]) = 2
    /\ Len(pair[2]) = 2
    /\ build(pair[1]) # build(pair[2])

(***************************************************************************)
(* C24  No stored component renders to the empty string: in every          *)
(* reachable builder state the stringify result of each component, the     *)
(* children of OR-groups included, is non-empty.  So the filters of        *)
(* build() and of the OR-group branch drop nothing, the empty-group        *)
(* fallback is not taken, and the built string is one clause per stored    *)
(* component, the clauses joined by single spaces ("" for an empty         *)
(* builder).                                                               *)
(***************************************************************************)
\* The clauses of a sequence of components, one per component.
ClausesOf(cs) == [i \in 1..Len(cs) |-> stringify(cs[i])]

\* parts[1] + " " + parts[2] + ..., "" for no parts.
JoinedWithSpaces(parts) ==
    LET J[i \in 0..Len(parts)] ==
            IF i = 0 THEN <<>>
            ELSE IF i = 1 THEN parts[1]
            ELSE J[i - 1] \o <<SP>> \o parts[i]
    IN  J[Len(parts)]

C24_NoEmptyClause ==
    /\ \A c \in AllComponents : stringify(c) # <<>>
    /\ filter_non_empty(ClausesOf(components)) = ClausesOf(components)
    /\ \A c \in AllComponents :
           c.kind = "Or" =>
               /\ c.components # <<>>
               /\ filter_non_empty(ClausesOf(c.components)) = ClausesOf(c.components)
               /\ stringify(c)[1] = "("
    /\ build(components) = JoinedWithSpaces(ClausesOf(components))
    /\ components = <<>> => build(components) = <<>>
    /\ components # <<>> =>
           Len(build(components)) =
               Len(build(SubSeq(components, 1, Len(components) - 1)))
                   + Len(stringify(LastComponent))
                   + (IF Len(components) > 1 THEN 1 ELSE 0)

\* A fourth component, an OR-group of one padded term, was appended to a
\* builder holding three: four clauses, three separating spaces.
C24_Witness ==
    /\ log # <<>>
    /\ LastCall.op = "or"
    /\ Len(components) = 4
    /\ LastComponent.kind = "Or"
    /\ LastComponent.components[1].kind = "Term"
    /\ is_whitespace(LastComponent.components[1].text[1])
    /\ Len(build(components)) =
           Len(stringify(components[1])) + Len(stringify(components[2]))
               + Len(stringify(components[3])) + Len(stringify(components[4])) + 3

(***************************************************************************)
(* C25  tag_wildcard(p) appends a wildcard only when it is missing: it is  *)
(* axis("tag", p) when p ends with '*' and axis("tag", p + "*")            *)
(* otherwise.  The stored value ends with '*' and holds the stars of p     *)
(* plus at most one, none being added to a pattern that ends with '*';     *)
(* tag_wildcard("mo") renders tag:mo* without quotes.                      *)
(***************************************************************************)
C25_TagWildcard ==
    [][(CallStep /\ StepCall.op = "tag_wildcard") =>
           LET p == StepCall.a
               starred == p # <<>> /\ p[Len(p)] = STAR
               tag_name == <<"t", "a", "g">>
               c == components'[Len(components')]
           IN  /\ starred => components' = axis(components, tag_name, p)
               /\ ~starred => components' = axis(components, tag_name, p \o <<STAR>>)
               /\ Len(components') = Len(components) + 1
               /\ c.kind = "Axis"
               /\ c.axis = tag_name
               /\ c.query[Len(c.query)] = STAR
               /\ starred => (c.query = trim(p) /\ CountOf(c.query, STAR) = CountOf(p, STAR))
               /\ ~starred => CountOf(c.query, STAR) = CountOf(p, STAR) + 1
               /\ p = <<"m", "o">> =>
                      /\ stringify(c) = <<"t", "a", "g", COLON, "m", "o", STAR>>
                      /\ build(components') = WithClause(build(components), stringify(c))]_vars

\* tag_wildcard was called with a pattern that ends with '*': the value
\* stored is the pattern, with its one star.
C25_Witness ==
    /\ log # <<>>
    /\ LastCall.op = "tag_wildcard"
    /\ LastCall.a = <<"a", STAR>>
    /\ components # <<>>
    /\ LastComponent = [kind |-> "Axis", axis |-> <<"t", "a", "g">>, query |-> <<"a", STAR>>]
    /\ stringify(LastComponent) = <<"t", "a", "g", COLON, "a", STAR>>

(***************************************************************************)
(* C26  Clauses inside an OR-group are normalized like top-level clauses:  *)
(* for every argument accepted by both, the child OrBuilder::axis / term / *)
(* phrase produces renders to the same text as the component the          *)
(* top-level axis / term / phrase produces from the same arguments, and    *)
(* the name and value of an axis child are stored trimmed, as at the top   *)
(* level.                                                                  *)
(***************************************************************************)
C26_OrChildrenNormalizedLikeTopLevel ==
    (log # <<>> /\ LastCall.op = "or") =>
        \A i \in 1..Len(AddingCalls(LastCall.a)) :
            LET c == AddingCalls(LastCall.a)[i]
            IN  c.m \in {"term", "phrase", "axis"} =>
                    /\ stringify(ChildOf(c)) = ClauseOf(MethodCall(c.m, c.a, c.b))
                    /\ c.m = "axis" =>
                           /\ ChildOf(c).axis = trim(c.a)
                           /\ ChildOf(c).query = trim(c.b)
(***************************************************************************)
(* Claims about send_command.                                              *)
(***************************************************************************)
\* The request that returned last was a bare send_command, and what the
\* remote answered.
LastCommand == last.op = "send_command"

Answer == last.responses[1]

\* The request of the last call reached the wire.
Posted == EffectsOf(last.effects, "post") # <<>>

\* A body that reports errors: JSON with a non-empty "errors" array.
ReportsErrors(body) ==
    /\ has(body, "errors")
    /\ index(body, "errors").is = "array"
    /\ Len(index(body, "errors").items) > 0

\* Ok(json) is returned only for a successful status whose JSON reports no
\* errors, and a successful status that reports errors is a FogbugzError
\* carrying the JSON.
OkOnlyWithoutErrors ==
    /\ last.result.ok =>
          /\ Answer.arrived /\ Answer.success /\ Answer.body # NotJson
          /\ ~ ReportsErrors(Answer.body)
          /\ last.result.json = Answer.body
    /\ Answer.arrived /\ Answer.success /\ ReportsErrors(Answer.body) =>
          last.result = Err("FogbugzError", Answer.body)

\* C28 as stated: send_command returns Ok(json) only when the status is
\* successful and the response has no "errors" array or an empty one; a
\* successful status with a non-empty "errors" array and EVERY non-successful
\* status yield Err(FogbugzError) carrying the response JSON.
C28_EveryFailureStatusIsFogbugzError ==
    LastCommand /\ Posted =>
        /\ OkOnlyWithoutErrors
        /\ Answer.arrived /\ ~ Answer.success =>
              last.result = Err("FogbugzError", Answer.body)

\* C28, amended: send_command returns Ok(json) only when the status is
\* successful and the body is JSON with no "errors" array or an empty one; a
\* successful status with a non-empty "errors" array, and every
\* non-successful status whose body is JSON, yield Err(FogbugzError) carrying
\* that JSON; a body that is not JSON yields Err(RequestError) whatever the
\* status; no path returns Ok for a response that reports errors.
C28_OutcomeMapping ==
    LastCommand /\ Posted =>
        /\ OkOnlyWithoutErrors
        /\ Answer.arrived /\ ~ Answer.success /\ Answer.body # NotJson =>
              last.result = Err("FogbugzError", Answer.body)
        /\ Answer.arrived /\ Answer.body = NotJson =>
              last.result = Err("RequestError", Null)
        /\ ReportsErrors(Answer.body) => ~ last.result.ok

\* A second command answered with a failure status and a JSON body that
\* reports an error, returned as a FogbugzError.
C28_Witness ==
    /\ LastCommand /\ Posted /\ calls = 2
    /\ Answer.arrived /\ ~ Answer.success /\ ReportsErrors(Answer.body)
    /\ last.result.error = "FogbugzError"

\* The effects of a send_command so far, through a client with a limiter,
\* are in order: no request is posted that has not a permit just before it.
PermitFirst(effects) ==
    \A i \in 1..Len(effects) :
        effects[i].e = "post" => i > 1 /\ effects[i - 1].e = "acquire_one"

\* In the effects of the call that returned last, the permit comes first
\* and the request second when the client has a limiter, nothing happens at
\* all when the base URL does not parse, and whatever is posted carries the
\* call's cmd and the client's token; and the calls in flight have posted
\* nothing without a permit either.
C29_Ordering ==
    /\ LastCommand =>
        LET client == last.req.client
            effects == last.effects
        IN  /\ client.limiter /\ client.url = "https://example.fogbugz.com" =>
                  /\ Len(effects) = 2
                  /\ effects[1].e = "acquire_one"
                  /\ effects[2].e = "post"
            /\ client.url # "https://example.fogbugz.com" =>
                  /\ Len(effects) = 0
                  /\ ~ last.result.ok
                  /\ last.result.error = "UrlError"
            /\ \A i \in 1..Len(effects) :
                  effects[i].e = "post" =>
                      /\ effects[i].payload["cmd"] = last.req.cmd
                      /\ effects[i].payload["token"] = client.api_key
    /\ \A t \in InFlight :
          tasks[t].op = "send_command" /\ tasks[t].req.client.limiter =>
              PermitFirst(tasks[t].effects)

\* Task t gains an effect of kind e in the step.
Gains(t, e) ==
    /\ t \in InFlight
    /\ tasks'[t].pc = "running"
    /\ Len(EffectsOf(tasks'[t].effects, e)) = Len(EffectsOf(tasks[t].effects, e)) + 1

\* In every step: a send_command through a client with a limiter posts only
\* after it took its permit, in an earlier step; the permits and the
\* requests the world has seen grow with the effects of the calls and only
\* with them; and a call through a client whose URL does not parse returns
\* in the step it starts in, with no permit taken and nothing sent.
C29_EveryCall ==
    /\ \A t \in Tasks :
          Gains(t, "post") /\ tasks[t].op = "send_command"
                           /\ tasks[t].req.client.limiter =>
              /\ Len(tasks[t].effects) = 1
              /\ tasks[t].effects[1].e = "acquire_one"
              /\ permits' = permits /\ permits >= 1
    /\ permits' = permits + Cardinality({t \in Tasks : Gains(t, "acquire_one")})
    /\ posts' = posts + Cardinality({t \in Tasks : Gains(t, "post")})
    /\ calls' = calls + 1 /\ last'.op = "send_command"
                          /\ last'.req.client.url # "https://example.fogbugz.com" =>
          /\ permits' = permits /\ posts' = posts
          /\ tasks' = tasks
          /\ last'.result.error = "UrlError"

\* C29: inside send_command, when a rate limiter is configured one permit is
\* acquired before the HTTP request is sent, for every command and on every
\* call; when the base URL fails to parse the call returns an error without
\* acquiring a permit or sending a request; every payload sent carries the
\* given cmd and the client's token, overriding same-named keys of the
\* caller's params.
C29_PermitBeforeRequest == []C29_Ordering /\ [][C29_EveryCall]_vars

\* Two calls through limited clients, two permits and two requests, the last
\* one with params that name their own cmd and token.
C29_Witness ==
    /\ LastCommand /\ calls = 2 /\ permits = 2 /\ posts = 2
    /\ last.req.client.limiter
    /\ "cmd" \in DOMAIN last.req.params
    /\ last.req.params["cmd"] # last.req.cmd
    /\ last.effects[2].payload["cmd"] = last.req.cmd

(***************************************************************************)
(* Claims about ListCasesRequest::send.                                    *)
(***************************************************************************)
\* The filter of the list_cases request that returned last, trimmed (""
\* when absent), and whether it stands for a saved filter: absent, blank, or
\* a u32.
LastListCases == last.op = "list_cases"

TrimmedFilter ==
    IF last.req.filter.some THEN trim(last.req.filter.v) ELSE <<>>

SavedFilter ==
    \/ ~ last.req.filter.some
    \/ Blank(last.req.filter.v)
    \/ parse_u32_is_ok(TrimmedFilter)

\* C27: ListCasesRequest::send routes on the trimmed filter: absent, blank
\* or parsing as a u32, it issues exactly one listCases command carrying the
\* filter as sFilter; otherwise exactly one search command carrying it as q;
\* never both and never neither (and never more on the wire than that one
\* command).
C27_RoutesOnTrimmedFilter ==
    LastListCases =>
        LET posted == EffectsOf(last.effects, "post")
        IN  /\ Len(last.commands) = 1
            /\ SavedFilter =>
                  /\ last.commands[1].cmd = "listCases"
                  /\ last.commands[1].params["sFilter"] = TrimmedFilter
                  /\ "q" \notin DOMAIN last.commands[1].params
            /\ ~ SavedFilter =>
                  /\ last.commands[1].cmd = "search"
                  /\ last.commands[1].params["q"] = TrimmedFilter
                  /\ "sFilter" \notin DOMAIN last.commands[1].params
            /\ Len(posted) <= 1
            /\ \A i \in 1..Len(posted) :
                  posted[i].payload["cmd"] = last.commands[1].cmd

\* A query built by FogBugzSearchBuilder sent as one search command, after a
\* saved-filter id was sent as one listCases command.
C27_Witness ==
    /\ LastListCases /\ calls = 2 /\ posts = 2
    /\ last.req.filter = Some(build(status(new, <<"A", "c", "t", "i", "v", "e">>)))
    /\ last.commands[1].cmd = "search"
    /\ last.effects[Len(last.effects)].payload["q"]
           = <<"s", "t", "a", "t", "u", "s", ":", "A", "c", "t", "i", "v", "e">>

(***************************************************************************)
(* Claims about AggregateHoursRequest::send.                               *)
(***************************************************************************)
\* The request that returned last was an aggregate_hours that returned Ok.
LastHoursOk == last.op = "aggregate_hours" /\ last.result.ok

\* The person and the dates of the request are passed to listIntervals, and
\* count and totalHits are the number of cases returned.
FiltersPassedAndCounted ==
    LET self == last.req
        params == last.commands[1].params
        data == last.result.data
    IN  /\ last.commands[1].cmd = "listIntervals"
        /\ self.person_id.some <=> "ixPerson" \in DOMAIN params
        /\ self.start_date.some <=> "dtStart" \in DOMAIN params
        /\ self.end_date.some <=> "dtEnd" \in DOMAIN params
        /\ self.person_id.some => params["ixPerson"] = self.person_id.v
        /\ self.start_date.some => params["dtStart"] = self.start_date.v
        /\ self.end_date.some => params["dtEnd"] = self.end_date.v
        /\ data.count = Len(data.cases)
        /\ data.totalHits = Len(data.cases)

\* C30: AggregateHoursRequest aggregates hours for the requested project:
\* when project_id is set, the cases send() returns are restricted to that
\* project; person_id, start_date and end_date are applied as filters when
\* set; count and totalHits both equal the number of cases returned.
C30_RestrictedToProject ==
    LastHoursOk =>
        /\ FiltersPassedAndCounted
        /\ last.req.project_id.some =>
              \A i \in 1..Len(last.result.data.cases) :
                  last.result.data.cases[i]["ixProject"]
                      = Number(last.req.project_id.v)

\* What does hold: filters passed and cases counted, whatever the project.
HoursFiltersAndCount == LastHoursOk => FiltersPassedAndCounted
====
